---- MODULE Spec2Model ----
(***************************************************************************)
(* Apollo gateway: quota ledger (token_pool.py) and the chat-completion    *)
(* request orchestration (proxy_routes.py).                                *)
(*                                                                         *)
(* The relational store is modelled by its tables: users (token_balance,   *)
(* token_granted, quota_*, request_count), usage_records (append-only      *)
(* rows), tokens (status, use_count).  Every "await conn.execute/fetch"    *)
(* is one atomic statement of the store; a coroutine can be suspended      *)
(* between two of them, so operations that issue several statements and    *)
(* whose interleaving matters are split at those points.                    *)
(***************************************************************************)
EXTENDS Integers, Sequences, FiniteSets, TLC

\* ------------------------------------------------------------------------
\* Bounds of the model
\* ------------------------------------------------------------------------
MaxTok == 1
\* largest prompt / completion token count one response reports

MaxGranted == 2
\* positive grants stop when the lifetime-granted total would pass this

MaxAmount == 1
\* size of the amounts an admin grants or takes back

MaxQuota == 2
\* largest quota cap an admin stores

MaxDay == 2
\* the clock stops advancing at this day

DaysPerMonth == 2
\* length of a calendar month in days

\* serial ids the usage_records table hands out in the ledger specifications
UsageRowIds == {1, 2}

Tenants == {"u1", "u2"}
TokenIds == {"A", "B", "C"}

None == "none"

Max(a, b) == IF a >= b THEN a ELSE b

\* the "usage" objects a response reports: nothing, prompt only, completion only, both
UsageReports ==
    { [prompt_tokens |-> 0, completion_tokens |-> 0],
      [prompt_tokens |-> 1, completion_tokens |-> 0],
      [prompt_tokens |-> 0, completion_tokens |-> 1],
      [prompt_tokens |-> MaxTok, completion_tokens |-> MaxTok] }

VARIABLES
    token_balance,   \* users.token_balance
    token_granted,   \* users.token_granted
    quota,           \* users.quota_daily_tokens / quota_monthly_tokens / quota_daily_requests
    request_count,   \* users.request_count
    usage_records,   \* table usage_records, in insertion order
    today,           \* the UTC date, as a day number
    grant_op,        \* the admin grant_tokens call in flight, between its SELECT and its UPDATE
    token_status,    \* tokens.status per credential id ("absent": no such row)
    token_use_count, \* tokens.use_count
    rr_index,        \* TokenPool._rr_index
    assigned_token_id, \* users.assigned_token_id ("" = none)
    req,             \* the chat_completions calls: control position and locals of each
    sel,             \* the get_user_token_entry calls: control position and locals of each
    rr_log,          \* credentials get_next_token returned since the active set last changed
    model_mappings,  \* table model_mappings (type 'combo'): name -> targets, is_builtin
    mapping_cache,   \* TokenPool._mapping_cache._store: key -> (value, expire_time)
    now,             \* time.monotonic(), in cache-lifetime ticks
    res,             \* the resolve_model calls: control position and locals of each
    tool_truncation_cache,    \* _tool_truncation_cache
    content_truncation_cache, \* _content_truncation_cache
    cache_lock,      \* _cache_lock: the thread holding it
    wall_clock,      \* time.time(), as the number of readings taken so far
    last_call,       \* the latest call that ran on the truncation caches
    thr,             \* the threads calling into truncation_state: position and locals
    rw,              \* the truncation rewrite of chat_completions: position and locals
    token_fp,        \* tokens.client_id_hash per credential id ("" = none)
    token_secret,    \* tokens: the secret material of the row (refresh_token, client_secret, ...)
    managers,        \* AuthBridge._managers: credential id -> KiroAuthManager
    adm,             \* the admin calls on the tokens table: position and locals of each
    brq,             \* the requests that obtain a session: position and locals of each
    user_apikeys,    \* table user_apikeys: apikey -> user_id (None: no such row)
    user_status,     \* users.status per tenant
    auth_cache,      \* TokenPool._auth_cache._store: f"apikey:{apikey}" -> (value, expire_time)
    val              \* the calls on API keys and tenant status: position and locals of each

ledger_vars == <<token_balance, token_granted, quota, request_count, usage_records, today, grant_op>>

cred_vars == <<token_status, token_use_count, rr_index, assigned_token_id>>

sel_vars == <<sel, rr_log>>

mapping_vars == <<model_mappings, mapping_cache, now, res>>

truncation_vars == <<tool_truncation_cache, content_truncation_cache, cache_lock, wall_clock,
                     last_call, thr>>

rewrite_vars == <<rw>>

bridge_vars == <<token_fp, token_secret, managers, adm, brq>>

auth_vars == <<user_apikeys, user_status, auth_cache, val>>

more_vars == <<rewrite_vars, bridge_vars, auth_vars>>

\* the state outside the ledger, the credential table and the chat_completions calls
ext_vars == <<sel_vars, mapping_vars, truncation_vars, more_vars>>

vars == <<token_balance, token_granted, quota, request_count, usage_records, today, grant_op,
          token_status, token_use_count, rr_index, assigned_token_id, req,
          sel, rr_log, model_mappings, mapping_cache, now, res,
          tool_truncation_cache, content_truncation_cache, cache_lock, wall_clock,
          last_call, thr, rw, token_fp, token_secret, managers, adm, brq,
          user_apikeys, user_status, auth_cache, val>>

\* ------------------------------------------------------------------------
\* Quota ledger: token_pool.py
\* ------------------------------------------------------------------------
MonthStart(d) == (d \div DaysPerMonth) * DaysPerMonth

RECURSIVE SumTokens(_)
SumTokens(rows) ==
    IF rows = <<>> THEN 0
    ELSE Head(rows).prompt_tokens + Head(rows).completion_tokens + SumTokens(Tail(rows))

\* variant: the COUNT filters on the wrong tenant
CountToday_other(u) ==
    Len(SelectSeq(usage_records, LAMBDA r : r.user_id # u /\ r.recorded_at = today))

\* SELECT COUNT(*) ... WHERE user_id = u AND recorded_at::date = today
CountToday(u) ==
    Len(SelectSeq(usage_records, LAMBDA r : r.user_id = u /\ r.recorded_at = today))

RECURSIVE SumPrompt(_)
SumPrompt(rows) ==
    IF rows = <<>> THEN 0 ELSE Head(rows).prompt_tokens + SumPrompt(Tail(rows))

\* variant: the daily SUM leaves the completion tokens out
TokensToday_prompt_only(u) ==
    SumPrompt(SelectSeq(usage_records, LAMBDA r : r.user_id = u /\ r.recorded_at = today))

\* SELECT COALESCE(SUM(prompt_tokens+completion_tokens),0) ... recorded_at::date = today
TokensToday(u) ==
    SumTokens(SelectSeq(usage_records, LAMBDA r : r.user_id = u /\ r.recorded_at = today))

\* SELECT COALESCE(SUM(prompt_tokens+completion_tokens),0) ... recorded_at >= first of month
TokensThisMonth(u) ==
    SumTokens(SelectSeq(usage_records,
                        LAMBDA r : r.user_id = u /\ r.recorded_at >= MonthStart(today)))

\* variant: the caps reject only when the count exceeds them
check_quota_gt(u) ==
    IF token_balance[u] <= 0 THEN "balance_exhausted"
    ELSE IF quota[u].daily_requests > 0 /\ CountToday(u) > quota[u].daily_requests
         THEN "daily_request_limit"
    ELSE IF quota[u].daily_tokens > 0 /\ TokensToday(u) > quota[u].daily_tokens
         THEN "daily_token_limit"
    ELSE IF quota[u].monthly_tokens > 0 /\ TokensThisMonth(u) > quota[u].monthly_tokens
         THEN "monthly_token_limit"
    ELSE None

check_quota(u) ==
    IF token_balance[u] <= 0 THEN "balance_exhausted"
    ELSE IF quota[u].daily_requests > 0 /\ CountToday(u) >= quota[u].daily_requests
         THEN "daily_request_limit"
    ELSE IF quota[u].daily_tokens > 0 /\ TokensToday(u) >= quota[u].daily_tokens
         THEN "daily_token_limit"
    ELSE IF quota[u].monthly_tokens > 0 /\ TokensThisMonth(u) >= quota[u].monthly_tokens
         THEN "monthly_token_limit"
    ELSE None

\* variant: the INSERT binds the two counts in the wrong order
UsageRow_swapped(u, m, p, c, t) ==
    [user_id |-> u, model |-> m, prompt_tokens |-> c, completion_tokens |-> p,
     token_id |-> t, recorded_at |-> today]

\* the row INSERT INTO usage_records writes (recorded_at defaults to now)
UsageRow(u, m, p, c, t) ==
    [user_id |-> u, model |-> m, prompt_tokens |-> p, completion_tokens |-> c,
     token_id |-> t, recorded_at |-> today]

\* variant: the UPDATE subtracts without GREATEST(0, ...)
BalanceAfterUsage_unclamped(bal, total) == bal - total

\* GREATEST(0, token_balance - total)
BalanceAfterUsage(bal, total) == Max(0, bal - total)

\* record_usage: INSERT INTO usage_records, then UPDATE users SET token_balance
record_usage(u, m, p, c, t) ==
    /\ usage_records' = Append(usage_records, UsageRow(u, m, p, c, t))
    /\ token_balance' = [token_balance EXCEPT ![u] = BalanceAfterUsage(@, p + c)]

\* new_balance = max(0, u["token_balance"] + amount)
BalanceAfterGrant(bal, amount) == Max(0, bal + amount)

\* new_granted = u["token_granted"] + amount if amount > 0 else u["token_granted"]
GrantedAfterGrant(granted, amount) == IF amount > 0 THEN granted + amount ELSE granted

NoGrant == [pc |-> "idle", user_id |-> None, amount |-> 0, balance |-> 0, granted |-> 0]

\* grant_tokens, first statement: SELECT * FROM users WHERE id = user_id
grant_tokens_select(u, amount) ==
    /\ grant_op.pc = "idle"
    /\ token_granted[u] + amount <= MaxGranted
    /\ grant_op' = [pc |-> "selected", user_id |-> u, amount |-> amount,
                    balance |-> token_balance[u], granted |-> token_granted[u]]
    /\ UNCHANGED <<token_balance, token_granted, quota, request_count, usage_records, today, cred_vars, ext_vars, req>>

\* grant_tokens, second statement: UPDATE users SET token_balance=$1, token_granted=$2
grant_tokens_update ==
    /\ grant_op.pc = "selected"
    /\ token_balance' = [token_balance EXCEPT
                            ![grant_op.user_id] = BalanceAfterGrant(grant_op.balance, grant_op.amount)]
    /\ token_granted' = [token_granted EXCEPT
                            ![grant_op.user_id] = GrantedAfterGrant(grant_op.granted, grant_op.amount)]
    /\ grant_op' = NoGrant
    /\ UNCHANGED <<quota, request_count, usage_records, today, cred_vars, ext_vars, req>>

\* variant: the DELETE has no WHERE clause
RowsAfterReset_all(rows, u) == <<>>

\* DELETE FROM usage_records WHERE user_id = $1: the rows that stay
RowsAfterReset(rows, u) == SelectSeq(rows, LAMBDA r : r.user_id # u)

\* reset_user_usage, first statement: DELETE FROM usage_records WHERE user_id = $1
\* (grant_op holds the one admin call on the users table that is in flight)
reset_user_usage(u) ==
    /\ grant_op.pc = "idle"
    /\ usage_records' = RowsAfterReset(usage_records, u)
    /\ grant_op' = [NoGrant EXCEPT !.pc = "deleted", !.user_id = u]
    /\ UNCHANGED <<token_balance, token_granted, quota, request_count, today, cred_vars,
                   ext_vars, req>>

\* reset_user_usage, second statement: UPDATE users SET request_count = 0 WHERE id = $1
reset_user_usage_update ==
    /\ grant_op.pc = "deleted"
    /\ request_count' = [request_count EXCEPT ![grant_op.user_id] = 0]
    /\ grant_op' = NoGrant
    /\ UNCHANGED <<token_balance, token_granted, quota, usage_records, today, cred_vars,
                   ext_vars, req>>

\* set_user_quota: UPDATE users SET the columns named in quota_updates
set_user_quota(u, quota_updates) ==
    /\ DOMAIN quota_updates # {}
    /\ quota' = [quota EXCEPT ![u] =
                    [k \in DOMAIN @ |-> IF k \in DOMAIN quota_updates THEN quota_updates[k] ELSE @[k]]]
    /\ UNCHANGED <<token_balance, token_granted, request_count, usage_records, today, grant_op, cred_vars, ext_vars, req>>

\* mark_user_used: UPDATE users SET request_count = request_count + 1
mark_user_used(u) ==
    request_count' = [request_count EXCEPT ![u] = @ + 1]

\* the wall clock passes midnight UTC
AdvanceDay ==
    /\ today < MaxDay
    /\ today' = today + 1
    /\ UNCHANGED <<token_balance, token_granted, quota, request_count, usage_records, grant_op, cred_vars, ext_vars, req>>

\* ------------------------------------------------------------------------
\* Credential selection: token_pool.py
\* ------------------------------------------------------------------------
\* SELECT * FROM tokens ... ORDER BY added_at: creation order of the rows
TokenOrder == <<"A", "B", "C">>

\* SELECT * FROM tokens WHERE status = 'active' ORDER BY added_at
ActiveTokens == SelectSeq(TokenOrder, LAMBDA t : token_status[t] = "active")

\* get_next_token: the row returned (None when no row is active)
NextTokenId ==
    IF ActiveTokens = <<>> THEN None
    ELSE ActiveTokens[(rr_index % Len(ActiveTokens)) + 1]

\* get_next_token: the cursor after the call
NextRrIndex ==
    IF ActiveTokens = <<>> THEN rr_index
    ELSE ((rr_index % Len(ActiveTokens)) + 1) % Len(ActiveTokens)

\* variant: the assigned credential is used whenever its row exists
UsesAssigned_any_status(assigned) ==
    /\ assigned # ""
    /\ token_status[assigned] \in {"active", "suspended"}

\* get_user_token_entry: the assigned credential is used when its row exists and is active
UsesAssigned(assigned) ==
    /\ assigned # ""
    /\ token_status[assigned] = "active"

\* mark_token_used: UPDATE tokens SET use_count = use_count + 1 WHERE id = token_id
mark_token_used(t) ==
    token_use_count' = [token_use_count EXCEPT ![t] = @ + 1]

\* ------------------------------------------------------------------------
\* Request orchestration: proxy_routes.py, chat_completions
\* ------------------------------------------------------------------------
\* the chat_completions calls in flight on the event loop
Reqs == {"r1", "r2"}

\* user_apikeys joined with users (status = 'active')
ApiKeyOwner == [k \in {"k1"} |-> "u1"]

\* Authorization header values: none, an unknown key, a key of tenant u1
ApiKeys == {"", "bad", "k1"}

\* model_mappings rows of type 'combo': name -> targets
ComboTargets == [n \in {"kiro-sonnet-4"} |-> <<"claude-sonnet-4">>]

\* model names clients ask for: a combo name and a name that is no combo
RequestModels == {"kiro-sonnet-4", "auto-kiro"}

\* resolve_model: first target of the combo, else the name itself
resolve_model(name) ==
    IF name \in DOMAIN ComboTargets /\ ComboTargets[name] # <<>>
    THEN ComboTargets[name][1] ELSE name

\* status the upstream answers with when it does not answer 200
UpstreamErrorStatus == 403

NewReq ==
    [pc |-> "start", user |-> None, assigned |-> "", token_id |-> None,
     model |-> None, stream |-> FALSE, status |-> 0, failed_at |-> None,
     client |-> "none", upstream_calls |-> 0, record_calls |-> 0,
     p_tok |-> 0, c_tok |-> 0, ending |-> None,
     requested |-> None, detail |-> None, accounted |-> None, upstream_status |-> 0]

\* the call has returned (and its generator, if any, has finished): its locals are gone;
\* what stays is what the caller and the upstream saw of it
Finished(q, code, step) ==
    [NewReq EXCEPT !.pc = "done", !.status = code, !.failed_at = step,
                   !.stream = q.stream, !.ending = q.ending,
                   !.client = q.client, !.detail = q.detail, !.accounted = q.accounted,
                   !.upstream_calls = q.upstream_calls, !.record_calls = q.record_calls,
                   !.upstream_status = q.upstream_status]

\* raise HTTPException(status_code=code) before the upstream call
Reject(r, code, step) ==
    req' = [req EXCEPT ![r] = Finished(req[r], code, step)]

\* _validate_user: 401 for a missing or unknown API key
AuthenticateTenant(r, key) ==
    /\ req[r].pc = "start"
    /\ IF key = "" \/ key \notin DOMAIN ApiKeyOwner
       THEN Reject(r, 401, "auth")
       ELSE req' = [req EXCEPT ![r].pc = "quota",
                               ![r].user = ApiKeyOwner[key],
                               ![r].assigned = assigned_token_id[ApiKeyOwner[key]]]
    /\ UNCHANGED <<ledger_vars, cred_vars, ext_vars>>

\* variant: admission takes one token of the balance as a reservation
AdmitByQuota_reserving(r) ==
    /\ req[r].pc = "quota"
    /\ IF check_quota(req[r].user) # None
       THEN /\ req' = [req EXCEPT ![r] =
                          Finished([req[r] EXCEPT !.detail = check_quota(req[r].user)],
                                   429, "quota")]
            /\ UNCHANGED token_balance
       ELSE /\ req' = [req EXCEPT ![r].pc = "select"]
            /\ token_balance' = [token_balance EXCEPT ![req[r].user] = @ - 1]
    /\ UNCHANGED <<token_granted, quota, request_count, usage_records, today, grant_op,
                   cred_vars, ext_vars>>

\* quota_error = await pool.check_quota(user["id"]); 429 when it names a reason
AdmitByQuota(r) ==
    /\ req[r].pc = "quota"
    /\ IF check_quota(req[r].user) # None
       THEN req' = [req EXCEPT ![r] =
                       Finished([req[r] EXCEPT !.detail = check_quota(req[r].user)], 429, "quota")]
       ELSE req' = [req EXCEPT ![r].pc = "select"]
    /\ UNCHANGED <<ledger_vars, cred_vars, ext_vars>>

\* token_entry = await pool.get_user_token_entry(user); 503 when there is none
SelectCredential(r) ==
    /\ req[r].pc = "select"
    /\ IF UsesAssigned(req[r].assigned)
       THEN /\ req' = [req EXCEPT ![r].pc = "parse", ![r].token_id = req[r].assigned]
            /\ UNCHANGED rr_index
       ELSE /\ rr_index' = NextRrIndex
            /\ IF NextTokenId = None
               THEN Reject(r, 503, "select")
               ELSE req' = [req EXCEPT ![r].pc = "parse", ![r].token_id = NextTokenId]
    /\ UNCHANGED <<ledger_vars, token_status, token_use_count, assigned_token_id, ext_vars>>

\* request.json() and ChatCompletionRequest(**raw_body): 400 / 422 on failure
ParseBody(r, body) ==
    /\ req[r].pc = "parse"
    /\ IF body.kind = "bad_json" THEN Reject(r, 400, "parse")
       ELSE IF body.kind = "invalid" THEN Reject(r, 422, "validate")
       ELSE req' = [req EXCEPT ![r].pc = "resolve", ![r].model = body.model,
                               ![r].requested = body.model, ![r].stream = body.stream]
    /\ UNCHANGED <<ledger_vars, cred_vars, ext_vars>>

\* variant: the handler goes from the resolved model straight to the upstream call
ResolveModel_then_dispatch(r) ==
    /\ req[r].pc = "resolve"
    /\ req' = [req EXCEPT ![r].pc = "dispatch", ![r].model = resolve_model(req[r].model)]
    /\ UNCHANGED <<ledger_vars, cred_vars, ext_vars>>

\* resolved_model = await pool.resolve_model(original_model)
ResolveModel(r) ==
    /\ req[r].pc = "resolve"
    /\ req' = [req EXCEPT ![r].pc = "rewrite", ![r].model = resolve_model(req[r].model)]
    /\ UNCHANGED <<ledger_vars, cred_vars, ext_vars>>

\* variant: the ValueError of build_kiro_payload is noted but the call goes on
RewriteAndBuild_swallow(r, payload_ok) ==
    /\ req[r].pc = "rewrite"
    /\ req' = [req EXCEPT ![r].pc = "dispatch",
                          ![r].status = IF payload_ok THEN @ ELSE 400,
                          ![r].failed_at = IF payload_ok THEN @ ELSE "build"]
    /\ UNCHANGED <<ledger_vars, cred_vars, ext_vars>>

\* get_or_create_manager, the truncation rewrite, build_kiro_payload (400 on
\* ValueError) and the construction of the KiroHttpClient: no await among them
RewriteAndBuild(r, payload_ok) ==
    /\ req[r].pc = "rewrite"
    /\ IF ~payload_ok
       THEN Reject(r, 400, "build")
       ELSE req' = [req EXCEPT ![r].pc = "dispatch"]
    /\ UNCHANGED <<ledger_vars, cred_vars, ext_vars>>

\* str(e) of an exception raised inside the handler
ExceptionText == "connection reset by peer"

\* detail=f"Internal Server Error: {str(e)}"
InternalErrorDetail(e) == "Internal Server Error: " \o e

\* status codes other than 200 the upstream answers with
UpstreamErrorStatuses == {UpstreamErrorStatus, 429}

\* variant: every upstream error is answered as a bad gateway
ErrorResponseStatus_bad_gateway(status_code) == 502

\* JSONResponse(status_code=response.status_code, ...)
ErrorResponseStatus(status_code) == status_code

\* variant: the handler answers 500 without closing the client
FailInternal_no_close(r, step) ==
    req' = [req EXCEPT ![r] =
               Finished([req[r] EXCEPT !.detail = InternalErrorDetail(ExceptionText)], 500, step)]

\* except HTTPException / except Exception around the dispatch: close the client, answer 500
FailInternal(r, step) ==
    req' = [req EXCEPT ![r] =
               Finished([req[r] EXCEPT !.client = "closed",
                                       !.detail = InternalErrorDetail(ExceptionText)],
                        500, step)]

\* response = await http_client.request_with_retry("POST", url, kiro_payload, stream=True)
\* and the branch on response.status_code
DispatchUpstream(r, outcome) ==
    /\ req[r].pc = "dispatch"
    /\ CASE outcome = "raise" ->
              req' = [req EXCEPT ![r] =
                         Finished([req[r] EXCEPT !.client = "closed", !.upstream_calls = @ + 1,
                                                 !.detail = InternalErrorDetail(ExceptionText)],
                                  500, "dispatch")]
         [] outcome = "error_status" ->
              \E status_code \in UpstreamErrorStatuses :
                 req' = [req EXCEPT ![r] =
                            Finished([req[r] EXCEPT !.client = "closed", !.upstream_calls = @ + 1,
                                                    !.upstream_status = status_code,
                                                    !.detail = "kiro_api_error"],
                                     ErrorResponseStatus(status_code), "upstream")]
         [] outcome = "ok" /\ req[r].stream ->
              req' = [req EXCEPT ![r].pc = "stream", ![r].status = 200,
                                 ![r].client = "open", ![r].upstream_calls = @ + 1]
         [] outcome = "ok" /\ ~req[r].stream ->
              req' = [req EXCEPT ![r].pc = "collect",
                                 ![r].client = "open", ![r].upstream_calls = @ + 1]
    /\ UNCHANGED <<ledger_vars, cred_vars, ext_vars>>

\* openai_response = await collect_stream_response(...); await http_client.close()
CollectAndReturn(r, ok, p, c) ==
    /\ req[r].pc = "collect"
    /\ IF ~ok THEN FailInternal(r, "collect")
       ELSE req' = [req EXCEPT ![r].pc = "mark_token", ![r].client = "closed",
                               ![r].p_tok = p, ![r].c_tok = c, ![r].ending = "completed"]
    /\ UNCHANGED <<ledger_vars, cred_vars, ext_vars>>

\* stream_wrapper: one chunk arrives from stream_kiro_to_openai; a chunk that carries
\* "usage" overwrites accumulated_usage; the chunk is yielded
StreamChunk(r, has_usage, p, c) ==
    /\ req[r].pc = "stream"
    /\ req' = [req EXCEPT ![r].pc = "yielded",
                          ![r].p_tok = IF has_usage THEN p ELSE @,
                          ![r].c_tok = IF has_usage THEN c ELSE @]
    /\ UNCHANGED <<ledger_vars, cred_vars, ext_vars>>

\* stream_wrapper: the consumer asks for the next chunk
StreamResume(r) ==
    /\ req[r].pc = "yielded"
    /\ req' = [req EXCEPT ![r].pc = "stream"]
    /\ UNCHANGED <<ledger_vars, cred_vars, ext_vars>>

\* stream_wrapper: the upstream iterator is exhausted; finally: await http_client.close()
StreamEnd(r) ==
    /\ req[r].pc = "stream"
    /\ req' = [req EXCEPT ![r].pc = "mark_token", ![r].client = "closed",
                          ![r].ending = "completed"]
    /\ UNCHANGED <<ledger_vars, cred_vars, ext_vars>>

\* variant: the generator returns on GeneratorExit without a finally block
StreamDisconnect_no_cleanup(r) ==
    /\ req[r].pc = "yielded"
    /\ req' = [req EXCEPT ![r] = Finished([req[r] EXCEPT !.ending = "disconnected"], 200, None)]
    /\ UNCHANGED <<ledger_vars, cred_vars, ext_vars>>

\* stream_wrapper: except GeneratorExit (the consumer closed the generator at a yield);
\* finally: await http_client.close()
StreamDisconnect(r) ==
    /\ req[r].pc = "yielded"
    /\ req' = [req EXCEPT ![r].pc = "mark_token", ![r].client = "closed",
                          ![r].ending = "disconnected"]
    /\ UNCHANGED <<ledger_vars, cred_vars, ext_vars>>

\* stream_wrapper: except Exception as e: streaming_error = e; yield "data: [DONE]"
StreamRaise(r) ==
    /\ req[r].pc = "stream"
    /\ req' = [req EXCEPT ![r].pc = "err_yield", ![r].ending = "error"]
    /\ UNCHANGED <<ledger_vars, cred_vars, ext_vars>>

\* stream_wrapper: after the [DONE] chunk the handler re-raises (resumed), or the
\* consumer closes the generator at that yield; either way finally closes the client
StreamErrorExit(r, resumed) ==
    /\ req[r].pc = "err_yield"
    /\ req' = [req EXCEPT ![r].pc = "mark_token", ![r].client = "closed",
                          ![r].ending = IF resumed THEN "error_raised" ELSE "error_closed"]
    /\ UNCHANGED <<ledger_vars, cred_vars, ext_vars>>

\* pc after the use-counter updates: record_usage is called only "if p_tok or c_tok"
AfterMarks(r) ==
    IF req[r].p_tok # 0 \/ req[r].c_tok # 0 THEN "record" ELSE "done"

\* an exception in the accounting that follows the upstream call: the streaming cleanup
\* swallows it (except Exception: pass); the non-streaming path lets the use-counter
\* updates reach the outer handler (500)
AccountingFails(r) ==
    IF req[r].stream
    THEN req' = [req EXCEPT ![r] =
                    Finished([req[r] EXCEPT !.accounted = "marks_failed"], 200, None)]
    ELSE req' = [req EXCEPT ![r] =
                    Finished([req[r] EXCEPT !.accounted = "marks_failed", !.client = "closed",
                                            !.detail = InternalErrorDetail(ExceptionText)],
                             500, "accounting")]

\* await pool.mark_token_used(token_entry["id"]); await pool.mark_user_used(user["id"]);
\* then the "if p_tok or c_tok" test
MarkUsed(r, outcome) ==
    /\ req[r].pc = "mark_token"
    /\ CASE outcome = "ok" ->
              /\ mark_token_used(req[r].token_id)
              /\ mark_user_used(req[r].user)
              /\ req' = [req EXCEPT ![r] = IF AfterMarks(r) = "done"
                                            THEN Finished([req[r] EXCEPT !.accounted = "skipped"],
                                                          200, None)
                                            ELSE [req[r] EXCEPT !.pc = "record"]]
         [] outcome = "token_raises" ->
              /\ AccountingFails(r)
              /\ UNCHANGED <<token_use_count, request_count>>
         [] outcome = "user_raises" ->
              /\ mark_token_used(req[r].token_id)
              /\ AccountingFails(r)
              /\ UNCHANGED request_count
    /\ UNCHANGED <<token_balance, token_granted, quota, usage_records, today, grant_op,
                   token_status, rr_index, assigned_token_id, ext_vars>>

\* variant: a failed INSERT is retried by calling record_usage again
RecordUsage_retry(r, outcome) ==
    /\ req[r].pc = "record"
    /\ req' = [req EXCEPT ![r] =
                  IF outcome = "insert_raises"
                  THEN [req[r] EXCEPT !.record_calls = @ + 1]
                  ELSE Finished([req[r] EXCEPT !.record_calls = @ + 1, !.accounted = outcome],
                                200, None)]
    /\ CASE outcome = "ok" ->
              record_usage(req[r].user, req[r].model, req[r].p_tok, req[r].c_tok, req[r].token_id)
         [] outcome = "insert_raises" ->
              UNCHANGED <<usage_records, token_balance>>
         [] outcome = "update_raises" ->
              /\ usage_records' = Append(usage_records,
                     UsageRow(req[r].user, req[r].model, req[r].p_tok, req[r].c_tok, req[r].token_id))
              /\ UNCHANGED token_balance
    /\ UNCHANGED <<token_granted, quota, request_count, today, grant_op, cred_vars, ext_vars>>

\* await pool.record_usage(user["id"], request_data.model, p_tok, c_tok, token_entry["id"]);
\* an exception it raises is caught on both paths, the response is returned
RecordUsage(r, outcome) ==
    /\ req[r].pc = "record"
    /\ req' = [req EXCEPT ![r] =
                  Finished([req[r] EXCEPT !.record_calls = @ + 1, !.accounted = outcome], 200, None)]
    /\ CASE outcome = "ok" ->
              record_usage(req[r].user, req[r].model, req[r].p_tok, req[r].c_tok, req[r].token_id)
         [] outcome = "insert_raises" ->
              UNCHANGED <<usage_records, token_balance>>
         [] outcome = "update_raises" ->
              /\ usage_records' = Append(usage_records,
                     UsageRow(req[r].user, req[r].model, req[r].p_tok, req[r].c_tok, req[r].token_id))
              /\ UNCHANGED token_balance
    /\ UNCHANGED <<token_granted, quota, request_count, today, grant_op, cred_vars, ext_vars>>

\* ------------------------------------------------------------------------
\* Credential selection calls: token_pool.py, get_user_token_entry / get_next_token
\* ------------------------------------------------------------------------
\* coroutines inside get_user_token_entry at the same time
SelCallers == {"s1", "s2"}

MaxLog == 4
\* how many of the latest round-robin results the log keeps

\* met: the credentials other get_next_token calls returned while this call was inside
\* get_next_token and the set of active rows stayed the same
NewSel == [pc |-> "idle", assigned |-> "", rows |-> <<>>, result |-> None,
           via |-> None, stale |-> FALSE, met |-> {}]

\* variant: the SELECT of get_next_token has no status filter
ActiveIn_any_status(status) ==
    SelectSeq(TokenOrder, LAMBDA t : status[t] \in {"active", "suspended"})

\* SELECT * FROM tokens WHERE status = 'active' ORDER BY added_at, over a tokens table
ActiveIn(status) == SelectSeq(TokenOrder, LAMBDA t : status[t] = "active")

\* self._rr_index = self._rr_index % len(rows); r = rows[self._rr_index]
RowAt(rows, cursor) == rows[(cursor % Len(rows)) + 1]

\* variant: the cursor is written back after a suspension point, from the value read
\* before it, so that a call running beside it finds the cursor where this call found it
CursorAfter_kept(rows, cursor) == cursor % Len(rows)

\* self._rr_index = (self._rr_index + 1) % len(rows)
CursorAfter(rows, cursor) == ((cursor % Len(rows)) + 1) % Len(rows)

\* the log of the latest MaxLog round-robin results of consecutive calls that ran
\* wholly while the set of active rows was the present one; a call that picks from
\* rows fetched before a write to the table ends the run of consecutive calls
Logged(log, t) ==
    IF Len(log) < MaxLog THEN Append(log, t) ELSE Append(Tail(log), t)

\* get_user_token_entry(user): assigned = user.get("assigned_token_id", "")
get_user_token_entry(c, assigned) ==
    /\ sel[c].pc = "idle"
    /\ sel' = [sel EXCEPT ![c] = [NewSel EXCEPT !.assigned = assigned,
                                               !.pc = IF assigned # "" THEN "lookup"
                                                      ELSE "fetch"]]
    /\ UNCHANGED <<ledger_vars, more_vars, cred_vars, req, rr_log, mapping_vars, truncation_vars>>

\* get_user_token_entry: the lookup of the assigned credential and the test on its row
get_token_full(c) ==
    /\ sel[c].pc = "lookup"
    /\ sel' = [sel EXCEPT ![c] =
                  IF UsesAssigned(sel[c].assigned)
                  THEN [sel[c] EXCEPT !.pc = "idle", !.result = sel[c].assigned,
                                      !.via = "sticky"]
                  ELSE [sel[c] EXCEPT !.pc = "fetch"]]
    /\ UNCHANGED <<ledger_vars, more_vars, cred_vars, req, rr_log, mapping_vars, truncation_vars>>

\* get_next_token: rows = await conn.fetch("SELECT * FROM tokens WHERE status = 'active' ...")
get_next_token_fetch(c) ==
    /\ sel[c].pc = "fetch"
    /\ sel' = [sel EXCEPT ![c].pc = "pick", ![c].rows = ActiveIn(token_status),
                          ![c].stale = FALSE]
    /\ UNCHANGED <<ledger_vars, more_vars, cred_vars, req, rr_log, mapping_vars, truncation_vars>>

\* get_next_token after the fetch: "if not rows: return None", else the cursor arithmetic
get_next_token_pick(c) ==
    /\ sel[c].pc = "pick"
    /\ IF sel[c].rows = <<>>
       THEN /\ sel' = [sel EXCEPT ![c].pc = "idle", ![c].result = None, ![c].via = "pool"]
            /\ UNCHANGED <<rr_index, rr_log>>
       ELSE /\ sel' = [d \in SelCallers |->
                          IF d = c
                          THEN [sel[c] EXCEPT !.pc = "idle", !.via = "pool",
                                              !.result = RowAt(sel[c].rows, rr_index)]
                          ELSE IF sel[d].pc \in {"fetch", "pick"}
                          THEN [sel[d] EXCEPT !.met = IF sel[c].stale THEN {}
                                                      ELSE @ \cup {RowAt(sel[c].rows, rr_index)}]
                          ELSE sel[d]]
            /\ rr_index' = CursorAfter(sel[c].rows, rr_index)
            /\ rr_log' = IF sel[c].stale THEN <<>>
                         ELSE Logged(rr_log, RowAt(sel[c].rows, rr_index))
    /\ UNCHANGED <<ledger_vars, more_vars, token_status, token_use_count, assigned_token_id, req,
                   mapping_vars, truncation_vars>>

\* a write to the tokens table: calls that hold rows fetched before it now hold old rows
TokensWritten(status) ==
    /\ token_status' = status
    /\ IF ActiveIn(status) = ActiveIn(token_status)
       THEN UNCHANGED <<sel, rr_log>>
       ELSE /\ rr_log' = <<>>
            /\ sel' = [c \in SelCallers |->
                          IF sel[c].pc = "pick" THEN [sel[c] EXCEPT !.stale = TRUE, !.met = {}]
                          ELSE IF sel[c].pc = "fetch" THEN [sel[c] EXCEPT !.met = {}]
                          ELSE sel[c]]
    /\ UNCHANGED <<ledger_vars, rewrite_vars, auth_vars, token_use_count, rr_index, assigned_token_id, req,
                   mapping_vars, truncation_vars>>

\* add_token, no row with this clientIdHash: INSERT with a new id, status 'active';
\* the new row is the last in added_at order
add_token_insert(t) ==
    /\ token_status[t] = "absent"
    /\ \A i \in DOMAIN TokenOrder :
          (i < CHOOSE j \in DOMAIN TokenOrder : TokenOrder[j] = t)
             => token_status[TokenOrder[i]] # "absent"
    /\ TokensWritten([token_status EXCEPT ![t] = "active"])
    /\ UNCHANGED bridge_vars

\* add_token, a row with this clientIdHash exists: UPDATE ... status='active'
add_token_update(t) ==
    /\ token_status[t] = "suspended"
    /\ TokensWritten([token_status EXCEPT ![t] = "active"])
    /\ UNCHANGED bridge_vars

\* remove_token: DELETE FROM tokens WHERE id = token_id
remove_token(t) ==
    /\ token_status[t] \in {"active", "suspended"}
    /\ TokensWritten([token_status EXCEPT ![t] = "removed"])
    /\ UNCHANGED bridge_vars

\* ------------------------------------------------------------------------
\* Alias store and its cache: token_pool.py, _Cache and the combo operations
\* ------------------------------------------------------------------------
MappingTtl == 60
\* self._mapping_cache = _Cache(ttl=60)

MaxTicks == 1
\* the clock stops after this many cache lifetimes

\* names looked up and written: a built-in combo and a custom one
AliasNames == {"kiro-sonnet-4", "fast"}

\* target lists an admin call passes to set_combo
TargetLists == {<<>>, <<"m2", "m1">>}

\* coroutines inside the combo operations at the same time
AliasCallers == {"c1", "c2"}

\* keys of _mapping_cache: f"combo:{name}" and f"resolve:{name}"
CacheKeys == {"combo", "resolve"} \X AliasNames

NoRow == [present |-> FALSE, targets |-> <<>>, is_builtin |-> FALSE]

NoEntry == [set |-> FALSE, targets |-> <<>>, model |-> None, expire |-> 0]

\* _seed_builtins: INSERT ... VALUES (name, 'combo', targets, true) for DEFAULT_COMBOS
SeededMappings ==
    [n \in AliasNames |->
        IF n \in DOMAIN ComboTargets
        THEN [present |-> TRUE, targets |-> ComboTargets[n], is_builtin |-> TRUE]
        ELSE NoRow]

NewRes == [pc |-> "idle", op |-> None, name |-> None, row |-> NoRow, result |-> None,
           served |-> None, ok |-> FALSE, cleared_other |-> FALSE,
           last_result |-> None, quiet |-> FALSE]

\* _Cache.get: the value of an entry that exists and has not expired
CacheHit(key) == mapping_cache[key].set /\ mapping_cache[key].expire > now

\* _Cache.set(key, value) for a combo: key
WithCombo(cache, name, targets) ==
    [cache EXCEPT ![<<"combo", name>>] =
        [set |-> TRUE, targets |-> targets, model |-> None, expire |-> now + MappingTtl]]

\* _Cache.set(key, value) for a resolve: key
WithResolve(cache, name, model) ==
    [cache EXCEPT ![<<"resolve", name>>] =
        [set |-> TRUE, targets |-> <<>>, model |-> model, expire |-> now + MappingTtl]]

\* variant: invalidate only the keys of the written name
ClearedCache_one_name(cache, name) ==
    [k \in CacheKeys |-> IF k[2] = name THEN NoEntry ELSE cache[k]]

\* _Cache.clear: self._store.clear()
ClearedCache(cache, name) == [k \in CacheKeys |-> NoEntry]

\* variant: a combo that exists resolves, an empty one to an empty model name
ResolvedTo_any_combo(name, combo) ==
    IF ~combo.present THEN name
    ELSE IF combo.targets = <<>> THEN "" ELSE combo.targets[1]

\* resolve_model: "if combo: return combo[0]", else "return name"
ResolvedTo(name, combo) ==
    IF combo.present /\ combo.targets # <<>> THEN combo.targets[1] ELSE name

\* the cache after resolve_model has its combo: "if combo: self._mapping_cache.set(...)"
CacheAfterResolve(cache, name, combo) ==
    IF combo.present /\ combo.targets # <<>>
    THEN WithResolve(cache, name, combo.targets[1]) ELSE cache

\* a resolve_model call returns: what the caller keeps of it
Resolved(q, model, served) ==
    [NewRes EXCEPT !.op = q.op, !.name = q.name, !.result = model, !.served = served,
                   !.quiet = q.quiet]

\* a call begins while no alias write is between its statement and its return; the
\* caller remembers what its previous call returned when that was resolve_model of the
\* same name and no alias write has run since that call began
Begun(q, op, name) ==
    LET no_write == \A d \in AliasCallers : res[d].pc # "clear"
    IN [NewRes EXCEPT !.pc = "begun", !.op = op, !.name = name,
                      !.last_result = IF q.op = "resolve_model" /\ q.name = name
                                         /\ q.quiet /\ no_write
                                      THEN q.result ELSE None,
                      !.quiet = no_write]

\* an alias write runs its statement while the caller is in a call or between two
\* calls; for a caller whose last call was an alias write: a later write has run
Disturbed(q) == [q EXCEPT !.quiet = FALSE, !.last_result = None]

\* resolve_model(name) up to its first await: the resolve: key, then resolve_combo's
\* combo: key, each served without suspending; on two misses the SELECT is issued
resolve_model_begin(c, name) ==
    /\ res[c].pc = "idle"
    /\ LET q == Begun(res[c], "resolve_model", name)
           combo == [NoRow EXCEPT !.present = TRUE,
                                  !.targets = mapping_cache[<<"combo", name>>].targets]
       IN
       IF CacheHit(<<"resolve", name>>)
       THEN /\ res' = [res EXCEPT ![c] =
                          [q EXCEPT !.pc = "hit", !.served = "resolve_cache",
                                    !.result = mapping_cache[<<"resolve", name>>].model]]
            /\ UNCHANGED mapping_cache
       ELSE IF CacheHit(<<"combo", name>>)
       THEN /\ res' = [res EXCEPT ![c] =
                          [q EXCEPT !.pc = "hit", !.served = "combo_cache", !.row = combo,
                                    !.result = ResolvedTo(name, combo)]]
            /\ mapping_cache' = CacheAfterResolve(mapping_cache, name, combo)
       ELSE /\ res' = [res EXCEPT ![c] = [q EXCEPT !.pc = "query"]]
            /\ UNCHANGED mapping_cache
    /\ UNCHANGED <<ledger_vars, more_vars, cred_vars, req, sel_vars, model_mappings, now, truncation_vars>>

\* resolve_model served from the cache: the caller has the value
resolve_model_return(c) ==
    /\ res[c].pc = "hit"
    /\ res' = [res EXCEPT ![c] = Resolved(res[c], res[c].result, res[c].served)]
    /\ UNCHANGED <<ledger_vars, more_vars, cred_vars, req, sel_vars, model_mappings, mapping_cache, now,
                   truncation_vars>>

\* resolve_combo: r = await conn.fetchrow("SELECT targets FROM model_mappings WHERE name = $1 ...")
resolve_combo_query(c) ==
    /\ res[c].pc = "query"
    /\ res' = [res EXCEPT ![c].pc = "fill", ![c].row = model_mappings[res[c].name]]
    /\ UNCHANGED <<ledger_vars, more_vars, cred_vars, req, sel_vars, model_mappings, mapping_cache, now,
                   truncation_vars>>

\* resolve_combo after the SELECT: cache the targets of a row that exists; then
\* resolve_model: cache and return combo[0], or return name
resolve_combo_fill(c) ==
    /\ res[c].pc = "fill"
    /\ LET name == res[c].name
           combo == res[c].row
           filled == IF combo.present THEN WithCombo(mapping_cache, name, combo.targets)
                     ELSE mapping_cache
       IN /\ mapping_cache' = CacheAfterResolve(filled, name, combo)
          /\ res' = [res EXCEPT ![c] = Resolved(res[c], ResolvedTo(name, combo), "store")]
    /\ UNCHANGED <<ledger_vars, more_vars, cred_vars, req, sel_vars, model_mappings, now, truncation_vars>>

\* set_combo: INSERT ... VALUES (name, 'combo', models, false)
\*            ON CONFLICT (name) DO UPDATE SET targets = models
set_combo(c, name, models) ==
    /\ res[c].pc = "idle"
    /\ model_mappings' = [model_mappings EXCEPT ![name] =
                             IF @.present THEN [@ EXCEPT !.targets = models]
                             ELSE [present |-> TRUE, targets |-> models, is_builtin |-> FALSE]]
    /\ res' = [d \in AliasCallers |->
                  IF d = c THEN [NewRes EXCEPT !.pc = "clear", !.op = "set_combo",
                                               !.name = name, !.ok = TRUE]
                  ELSE Disturbed(res[d])]
    /\ UNCHANGED <<ledger_vars, more_vars, cred_vars, req, sel_vars, mapping_cache, now, truncation_vars>>

\* variant: the DELETE has no is_builtin filter
RowAfterRemove_any(row) == NoRow

\* DELETE FROM model_mappings WHERE name = $1 AND type = 'combo' AND is_builtin = false
RowAfterRemove(row) == IF row.present /\ ~row.is_builtin THEN NoRow ELSE row

\* remove_combo: the DELETE; res == "DELETE 1" is what the call will return
remove_combo(c, name) ==
    /\ res[c].pc = "idle"
    /\ model_mappings' = [model_mappings EXCEPT ![name] = RowAfterRemove(@)]
    /\ res' = [d \in AliasCallers |->
                  IF d = c THEN [NewRes EXCEPT !.pc = "clear", !.op = "remove_combo",
                                               !.name = name,
                                               !.ok = (model_mappings[name].present
                                                       /\ RowAfterRemove(model_mappings[name]) = NoRow)]
                  ELSE Disturbed(res[d])]
    /\ UNCHANGED <<ledger_vars, more_vars, cred_vars, req, sel_vars, mapping_cache, now, truncation_vars>>

\* set_combo / remove_combo after the statement: self._mapping_cache.clear(); return
mapping_cache_clear(c) ==
    /\ res[c].pc = "clear"
    /\ mapping_cache' = ClearedCache(mapping_cache, res[c].name)
    /\ res' = [res EXCEPT ![c] =
                  [NewRes EXCEPT !.op = res[c].op, !.name = res[c].name, !.ok = res[c].ok,
                                 !.quiet = TRUE,
                                 !.cleared_other =
                                     \E k \in CacheKeys : k[2] # res[c].name /\ mapping_cache[k].set]]
    /\ UNCHANGED <<ledger_vars, more_vars, cred_vars, req, sel_vars, model_mappings, now, truncation_vars>>

\* time.monotonic() passes one cache lifetime: every entry set before has expired
MappingTtlPasses ==
    /\ now < MaxTicks * MappingTtl
    /\ now' = now + MappingTtl
    /\ UNCHANGED <<ledger_vars, more_vars, cred_vars, req, sel_vars, model_mappings, mapping_cache, res,
                   truncation_vars>>

\* ------------------------------------------------------------------------
\* Truncation state: kiro/truncation_state.py
\* ------------------------------------------------------------------------
HashPrefixLen == 2
\* content[:500], scaled to the texts of the model

PreviewLen == 1
\* content[:200], scaled to the texts of the model

MaxSaves == 2
\* saves stop after this many readings of time.time()

\* threads (or requests) calling into truncation_state at the same time
Threads == {"t1", "t2"}

ToolCallIds == {"call_1", "call_2"}

ToolNames == {"Write", "Bash"}

\* assistant texts: two that differ only after the hashed prefix and a text shorter
\* than the prefix
Texts == { <<"a", "b", "c">>, <<"a", "b", "d">>, <<"a">> }

\* content[:n]
Prefix(content, n) == SubSeq(content, 1, IF Len(content) < n THEN Len(content) ELSE n)

\* hashlib.sha256(content[:500].encode()).hexdigest()[:16]: one digest per hashed prefix
MessageHash(content) == Prefix(content, HashPrefixLen)

MessageHashes == {MessageHash(x) : x \in Texts}

NoInfo == [present |-> FALSE]

\* ToolTruncationInfo(tool_call_id, tool_name, truncation_info, timestamp=time.time())
ToolTruncationInfo(tool_call_id, tool_name, truncation_info) ==
    [present |-> TRUE, tool_call_id |-> tool_call_id, tool_name |-> tool_name,
     truncation_info |-> truncation_info, timestamp |-> wall_clock]

\* ContentTruncationInfo(message_hash, content_preview=content[:200], timestamp=time.time())
ContentTruncationInfo(content) ==
    [present |-> TRUE, message_hash |-> MessageHash(content),
     content_preview |-> Prefix(content, PreviewLen), timestamp |-> wall_clock]

\* variant: an entry that is already there is kept
Stored_if_absent(cache, key, info) ==
    IF cache[key].present THEN cache ELSE [cache EXCEPT ![key] = info]

\* cache[key] = info
Stored(cache, key, info) == [cache EXCEPT ![key] = info]

\* variant: a take empties the cache
Popped_all(cache, key) == [k \in DOMAIN cache |-> NoInfo]

\* variant: the entry is read with get, not removed
Popped_kept(cache, key) == cache

\* cache.pop(key, None): the cache afterwards
Popped(cache, key) == [cache EXCEPT ![key] = NoInfo]

\* time.time() moves on between the calls
ClockAdvances ==
    /\ wall_clock < MaxSaves
    /\ wall_clock' = wall_clock + 1
    /\ UNCHANGED <<ledger_vars, more_vars, cred_vars, req, sel_vars, mapping_vars,
                   tool_truncation_cache, content_truncation_cache, cache_lock, thr, last_call>>

NewThread == [pc |-> "idle", op |-> None, id |-> "", text |-> <<>>, tool_name |-> None,
              truncation_info |-> None, result |-> NoInfo]

NoCall == [op |-> None, id |-> "", text |-> <<>>, info |-> NoInfo]

\* a call returns: the thread keeps what the call returned
Returned(q, info) == [NewThread EXCEPT !.op = q.op, !.result = info]

\* "with _cache_lock:" is entered by the thread that acquires the lock
Enter(t, op, id, text, tool_name, truncation_info) ==
    /\ thr[t].pc = "idle"
    /\ cache_lock = None
    /\ op \in {"save_tool_truncation", "save_content_truncation"} => wall_clock < MaxSaves
    /\ cache_lock' = t
    /\ thr' = [thr EXCEPT ![t] = [NewThread EXCEPT !.pc = "locked", !.op = op, !.id = id,
                                                   !.text = text, !.tool_name = tool_name,
                                                   !.truncation_info = truncation_info]]
    /\ UNCHANGED <<ledger_vars, more_vars, cred_vars, req, sel_vars, mapping_vars,
                   tool_truncation_cache, content_truncation_cache, wall_clock, last_call>>

\* save_tool_truncation(tool_call_id, tool_name, truncation_info)
save_tool_truncation(t) ==
    /\ thr[t].pc = "locked" /\ thr[t].op = "save_tool_truncation"
    /\ LET info == ToolTruncationInfo(thr[t].id, thr[t].tool_name, thr[t].truncation_info)
       IN /\ tool_truncation_cache' = Stored(tool_truncation_cache, thr[t].id, info)
          /\ thr' = [thr EXCEPT ![t] = Returned(thr[t], NoInfo)]
          /\ last_call' = [op |-> thr[t].op, id |-> thr[t].id, text |-> <<>>, info |-> info]
    /\ wall_clock' = wall_clock + 1
    /\ cache_lock' = None
    /\ UNCHANGED <<ledger_vars, more_vars, cred_vars, req, sel_vars, mapping_vars, content_truncation_cache>>

\* get_tool_truncation(tool_call_id): info = _tool_truncation_cache.pop(tool_call_id, None)
get_tool_truncation(t) ==
    /\ thr[t].pc = "locked" /\ thr[t].op = "get_tool_truncation"
    /\ tool_truncation_cache' = Popped(tool_truncation_cache, thr[t].id)
    /\ thr' = [thr EXCEPT ![t] = Returned(thr[t], tool_truncation_cache[thr[t].id])]
    /\ last_call' = [op |-> thr[t].op, id |-> thr[t].id, text |-> <<>>,
                     info |-> tool_truncation_cache[thr[t].id]]
    /\ cache_lock' = None
    /\ UNCHANGED <<ledger_vars, more_vars, cred_vars, req, sel_vars, mapping_vars,
                   content_truncation_cache, wall_clock>>

\* save_content_truncation(content); it returns the hash
save_content_truncation(t) ==
    /\ thr[t].pc = "locked" /\ thr[t].op = "save_content_truncation"
    /\ LET info == ContentTruncationInfo(thr[t].text)
       IN /\ content_truncation_cache' =
                Stored(content_truncation_cache, MessageHash(thr[t].text), info)
          /\ thr' = [thr EXCEPT ![t] = Returned(thr[t], NoInfo)]
          /\ last_call' = [op |-> thr[t].op, id |-> "", text |-> thr[t].text, info |-> info]
    /\ wall_clock' = wall_clock + 1
    /\ cache_lock' = None
    /\ UNCHANGED <<ledger_vars, more_vars, cred_vars, req, sel_vars, mapping_vars, tool_truncation_cache>>

\* get_content_truncation(content): info = _content_truncation_cache.pop(message_hash, None)
get_content_truncation(t) ==
    /\ thr[t].pc = "locked" /\ thr[t].op = "get_content_truncation"
    /\ content_truncation_cache' = Popped(content_truncation_cache, MessageHash(thr[t].text))
    /\ thr' = [thr EXCEPT ![t] =
                  Returned(thr[t], content_truncation_cache[MessageHash(thr[t].text)])]
    /\ last_call' = [op |-> thr[t].op, id |-> "", text |-> thr[t].text,
                     info |-> content_truncation_cache[MessageHash(thr[t].text)]]
    /\ cache_lock' = None
    /\ UNCHANGED <<ledger_vars, more_vars, cred_vars, req, sel_vars, mapping_vars,
                   tool_truncation_cache, wall_clock>>

\* ------------------------------------------------------------------------
\* Truncation rewrite of a request's messages: proxy_routes.py, chat_completions
\* ------------------------------------------------------------------------
ToolResult == <<"ok">>
Question == <<"q">>

\* content of generate_truncation_tool_result(...)["content"]
ToolNotice == <<"[API Limitation]">>

\* the text the f-string puts between the synthetic content and msg.content
OriginalMarker == <<"---", "Original tool result:">>

\* generate_truncation_user_message()
UserNotice == <<"[System Notice]">>

ChatMessage(role, tool_call_id, content) ==
    [role |-> role, tool_call_id |-> tool_call_id, content |-> content]

\* messages a client sends: tool results with and without an id, assistant messages
\* with text and without, a user message
InputMessages ==
    { ChatMessage("tool", "call_1", ToolResult),
      ChatMessage("tool", "", ToolResult),
      ChatMessage("assistant", "", <<"a", "b", "c">>),
      ChatMessage("assistant", "", <<"a", "b", "d">>),
      ChatMessage("assistant", "", <<>>),
      ChatMessage("user", "", Question) }

\* request_data.messages of the requests
MessageLists == UNION { [1 .. n -> InputMessages] : n \in {1, 2, 3} }

NewRewrite == [pc |-> "idle", messages |-> <<>>, i |-> 0, modified_messages |-> <<>>,
               tool_results_modified |-> 0, content_notices_added |-> 0, out |-> <<>>,
               pending_tool |-> {}, pending_content |-> {}]

\* variant: the synthetic content replaces the tool result
ModifiedContent_notice_only(synthetic_content, original) ==
    synthetic_content \o OriginalMarker

\* f"{synthetic['content']}\n\n---\n\nOriginal tool result:\n{msg.content}"
ModifiedContent(synthetic_content, original) ==
    synthetic_content \o OriginalMarker \o original

\* generate_truncation_tool_result: the synthetic tool_result; tool_name and
\* truncation_info go to the debug log only
generate_truncation_tool_result(tool_name, tool_use_id, truncation_info) ==
    [type |-> "tool_result", tool_use_id |-> tool_use_id, content |-> ToolNotice,
     is_error |-> TRUE]

\* msg.role == "tool" and msg.tool_call_id
IsToolResult(msg) == msg.role = "tool" /\ msg.tool_call_id # ""

\* msg.role == "assistant" and msg.content and isinstance(msg.content, str)
IsAssistantText(msg) == msg.role = "assistant" /\ msg.content # <<>>

\* variant: the notice is put in front of the assistant message
WithNotice_before(msg) == <<ChatMessage("user", "", UserNotice), msg>>

\* modified_messages.append(msg); modified_messages.append(synthetic_user_msg)
WithNotice(msg) == <<msg, ChatMessage("user", "", UserNotice)>>

\* msg.model_copy(update={"content": modified_content})
WithToolNotice(msg, info) ==
    [msg EXCEPT !.content =
        ModifiedContent(generate_truncation_tool_result(info.tool_name, msg.tool_call_id,
                                                        info.truncation_info).content,
                        msg.content)]

\* the loop is entered: modified_messages = [], the two counters 0
RewriteBegin(messages) ==
    /\ rw.pc = "idle"
    /\ \A t \in Threads : thr[t].pc = "idle"
    /\ rw' = [NewRewrite EXCEPT !.pc = "loop", !.messages = messages, !.i = 1,
                 !.pending_tool = {k \in ToolCallIds : tool_truncation_cache[k].present},
                 !.pending_content = {k \in MessageHashes : content_truncation_cache[k].present}]
    /\ UNCHANGED <<ledger_vars, cred_vars, req, sel_vars, mapping_vars, truncation_vars,
                   bridge_vars, auth_vars>>

\* one iteration of "for msg in request_data.messages", first branch taken:
\* get_tool_truncation(msg.tool_call_id) returned an entry
RewriteToolResult ==
    /\ rw.pc = "loop" /\ rw.i <= Len(rw.messages) /\ cache_lock = None
    /\ LET msg == rw.messages[rw.i]
           info == tool_truncation_cache[msg.tool_call_id]
       IN /\ IsToolResult(msg)
          /\ info.present
          /\ tool_truncation_cache' = Popped(tool_truncation_cache, msg.tool_call_id)
          /\ last_call' = [op |-> "get_tool_truncation", id |-> msg.tool_call_id,
                           text |-> <<>>, info |-> info]
          /\ rw' = [rw EXCEPT !.i = @ + 1,
                              !.modified_messages = Append(@, WithToolNotice(msg, info)),
                              !.tool_results_modified = @ + 1]
    /\ UNCHANGED <<ledger_vars, cred_vars, req, sel_vars, mapping_vars, bridge_vars, auth_vars,
                   content_truncation_cache, cache_lock, wall_clock, thr>>

\* one iteration, second branch taken: get_content_truncation(msg.content) returned
\* an entry
RewriteAssistant ==
    /\ rw.pc = "loop" /\ rw.i <= Len(rw.messages) /\ cache_lock = None
    /\ LET msg == rw.messages[rw.i]
       IN /\ IsAssistantText(msg)
          /\ content_truncation_cache[MessageHash(msg.content)].present
          /\ content_truncation_cache' =
                Popped(content_truncation_cache, MessageHash(msg.content))
          /\ last_call' = [op |-> "get_content_truncation", id |-> "", text |-> msg.content,
                           info |-> content_truncation_cache[MessageHash(msg.content)]]
          /\ rw' = [rw EXCEPT !.i = @ + 1,
                              !.modified_messages = @ \o WithNotice(msg),
                              !.content_notices_added = @ + 1]
    /\ UNCHANGED <<ledger_vars, cred_vars, req, sel_vars, mapping_vars, bridge_vars, auth_vars,
                   tool_truncation_cache, cache_lock, wall_clock, thr>>

\* one iteration, neither branch taken: modified_messages.append(msg); the take that
\* was made, if any, found nothing
RewriteKeep ==
    /\ rw.pc = "loop" /\ rw.i <= Len(rw.messages) /\ cache_lock = None
    /\ LET msg == rw.messages[rw.i]
       IN /\ IsToolResult(msg) => ~tool_truncation_cache[msg.tool_call_id].present
          /\ IsAssistantText(msg) => ~content_truncation_cache[MessageHash(msg.content)].present
          /\ last_call' = IF IsToolResult(msg)
                          THEN [op |-> "get_tool_truncation", id |-> msg.tool_call_id,
                                text |-> <<>>, info |-> NoInfo]
                          ELSE IF IsAssistantText(msg)
                          THEN [op |-> "get_content_truncation", id |-> "",
                                text |-> msg.content, info |-> NoInfo]
                          ELSE last_call
          /\ rw' = [rw EXCEPT !.i = @ + 1, !.modified_messages = Append(@, msg)]
    /\ UNCHANGED <<ledger_vars, cred_vars, req, sel_vars, mapping_vars, bridge_vars, auth_vars,
                   tool_truncation_cache, content_truncation_cache, cache_lock, wall_clock, thr>>

\* after the loop: "if tool_results_modified > 0 or content_notices_added > 0:
\* request_data.messages = modified_messages"
RewriteEnd ==
    /\ rw.pc = "loop" /\ rw.i > Len(rw.messages)
    /\ rw' = [rw EXCEPT !.pc = "done",
                        !.out = IF rw.tool_results_modified > 0 \/ rw.content_notices_added > 0
                                THEN rw.modified_messages ELSE rw.messages]
    /\ UNCHANGED <<ledger_vars, cred_vars, req, sel_vars, mapping_vars, truncation_vars,
                   bridge_vars, auth_vars>>

\* what build_kiro_payload and request_with_retry make of the rewritten request:
\* ValueError (400), an exception of the call (500), a status other than 200, or 200
SendOutcomes == {"payload_error", "network_error", "error_status", "ok"}

\* the handler goes on with request_data.messages: build_kiro_payload, then
\* http_client.request_with_retry and the test of response.status_code; after a 200
\* the messages are with the upstream and the handler returns its response
BuildAndSend(outcome) ==
    /\ rw.pc = "done"
    /\ rw' = IF outcome = "ok" THEN NewRewrite ELSE [rw EXCEPT !.pc = "failed"]
    /\ UNCHANGED <<ledger_vars, cred_vars, req, sel_vars, mapping_vars, truncation_vars,
                   bridge_vars, auth_vars>>

\* the handler returns its error response
RewriteReturn ==
    /\ rw.pc = "failed"
    /\ rw' = NewRewrite
    /\ UNCHANGED <<ledger_vars, cred_vars, req, sel_vars, mapping_vars, truncation_vars,
                   bridge_vars, auth_vars>>

\* ------------------------------------------------------------------------
\* Credential records and the sessions of the bridge: token_pool.py add_token /
\* remove_token / update_token_credentials, admin_routes.py, auth_bridge.py
\* ------------------------------------------------------------------------
\* clientIdHash values of the records an admin uploads ("" = none)
Fingerprints == {"", "h1"}

\* secret material of the records (refreshToken, accessToken, clientSecret, ...)
Secrets == {"s1", "s2"}

\* admin calls on the tokens table at the same time
AdminCallers == {"a1", "a2"}

\* requests between get_user_token_entry and get_or_create_manager
BridgeReqs == {"q1"}

NoSession == [made |-> FALSE, token_id |-> None, material |-> None]

NoEntryRead == [id |-> None, secret |-> None]

NewAdm == [pc |-> "idle", op |-> None, fp |-> "", secret |-> None, tid |-> None]

NewBrq == [pc |-> "idle", entry |-> NoEntryRead, session |-> NoSession]

\* the rows of the tokens table
TokenRows == {t \in TokenIds : token_status[t] \in {"active", "suspended"}}

\* ids the rows inserted by add_token get
RecordIds == {"A", "B"}

\* tid = secrets.token_hex(8): an id no row has had; the new row is the last in added_at order
FreshTokenIds ==
    {t \in RecordIds :
        /\ token_status[t] = "absent"
        /\ \A i \in DOMAIN TokenOrder :
              (i < CHOOSE j \in DOMAIN TokenOrder : TokenOrder[j] = t)
                 => token_status[TokenOrder[i]] # "absent"}

\* add_token up to its first statement: with a clientIdHash,
\* "SELECT id FROM tokens WHERE client_id_hash = $1" and the branch on "if existing";
\* without one the INSERT comes next
add_token_select(a, fp, secret) ==
    /\ adm[a].pc = "idle"
    /\ LET existing == {t \in TokenRows : token_fp[t] = fp}
       IN IF fp # "" /\ existing # {}
          THEN \E tid \in existing :
                  adm' = [adm EXCEPT ![a] = [NewAdm EXCEPT !.pc = "update", !.op = "add_token",
                                                           !.secret = secret, !.tid = tid]]
          ELSE adm' = [adm EXCEPT ![a] = [NewAdm EXCEPT !.pc = "insert", !.op = "add_token",
                                                        !.fp = fp, !.secret = secret]]
    /\ UNCHANGED <<ledger_vars, cred_vars, req, sel_vars, mapping_vars, truncation_vars,
                   rewrite_vars, auth_vars, token_fp, token_secret, managers, brq>>

\* add_token, "if existing": UPDATE tokens SET refresh_token=..., status='active' WHERE id=tid
add_token_update_existing(a) ==
    /\ adm[a].pc = "update"
    /\ IF adm[a].tid \in TokenRows
       THEN /\ TokensWritten([token_status EXCEPT ![adm[a].tid] = "active"])
            /\ token_secret' = [token_secret EXCEPT ![adm[a].tid] = adm[a].secret]
       ELSE /\ TokensWritten(token_status)
            /\ UNCHANGED token_secret
    /\ adm' = [adm EXCEPT ![a] = NewAdm]
    /\ UNCHANGED <<token_fp, managers, brq>>

\* the columns of the tokens table that are declared unique: the primary key
TokensUniqueColumns == {"id"}

\* add_token, new credential: tid = secrets.token_hex(8); INSERT INTO tokens ... 'active';
\* the statement raises when it breaks a uniqueness constraint of the table
add_token_insert_new(a) ==
    /\ adm[a].pc = "insert"
    /\ IF /\ "client_id_hash" \in TokensUniqueColumns
          /\ adm[a].fp # ""
          /\ \E t \in TokenRows : token_fp[t] = adm[a].fp
       THEN /\ TokensWritten(token_status)
            /\ UNCHANGED <<token_fp, token_secret>>
       ELSE \E tid \in FreshTokenIds :
               /\ TokensWritten([token_status EXCEPT ![tid] = "active"])
               /\ token_fp' = [token_fp EXCEPT ![tid] = adm[a].fp]
               /\ token_secret' = [token_secret EXCEPT ![tid] = adm[a].secret]
    /\ adm' = [adm EXCEPT ![a] = NewAdm]
    /\ UNCHANGED <<managers, brq>>

\* update_token_credentials(token_id, updates): UPDATE tokens SET ... WHERE id = token_id
update_token_credentials(t, secret) ==
    /\ t \in TokenRows
    /\ token_secret' = [token_secret EXCEPT ![t] = secret]
    /\ UNCHANGED <<ledger_vars, cred_vars, req, sel_vars, mapping_vars, truncation_vars,
                   rewrite_vars, auth_vars, token_fp, managers, adm, brq>>

\* admin route remove_token: ok = await pool.remove_token(token_id), the DELETE;
\* 404 when no row was deleted
remove_token_route(a, t) ==
    /\ adm[a].pc = "idle"
    /\ TokensWritten(IF t \in TokenRows THEN [token_status EXCEPT ![t] = "removed"]
                     ELSE token_status)
    /\ adm' = [adm EXCEPT ![a] = IF t \in TokenRows
                                 THEN [NewAdm EXCEPT !.pc = "evict", !.op = "remove_token",
                                                     !.tid = t]
                                 ELSE NewAdm]
    /\ token_fp' = IF t \in TokenRows THEN [token_fp EXCEPT ![t] = ""] ELSE token_fp
    /\ token_secret' = IF t \in TokenRows THEN [token_secret EXCEPT ![t] = None]
                       ELSE token_secret
    /\ UNCHANGED <<managers, brq>>

\* admin route remove_token: request.app.state.bridge.remove_manager(token_id)
remove_manager(a) ==
    /\ adm[a].pc = "evict"
    /\ managers' = [managers EXCEPT ![adm[a].tid] = NoSession]
    /\ adm' = [adm EXCEPT ![a] = NewAdm]
    /\ UNCHANGED <<ledger_vars, cred_vars, req, sel_vars, mapping_vars, truncation_vars,
                   rewrite_vars, auth_vars, token_fp, token_secret, brq>>

\* a request has its token_entry: the row get_user_token_entry read (an active row)
token_entry_read(q, t) ==
    /\ brq[q].pc = "idle"
    /\ token_status[t] = "active"
    /\ brq' = [brq EXCEPT ![q] = [NewBrq EXCEPT !.pc = "have_entry",
                                               !.entry = [id |-> t, secret |-> token_secret[t]]]]
    /\ UNCHANGED <<ledger_vars, cred_vars, req, sel_vars, mapping_vars, truncation_vars,
                   rewrite_vars, auth_vars, token_fp, token_secret, managers, adm>>

\* variant: a manager is reused only when the record carries the material it was built from
HasManager_same_material(mgrs, token_entry) ==
    mgrs[token_entry.id].made /\ mgrs[token_entry.id].material = token_entry.secret

\* "if token_id in self._managers"
HasManager(mgrs, token_entry) == mgrs[token_entry.id].made

\* KiroAuthManager(refresh_token=token_entry.get("refreshToken"), ...): a new object
KiroAuthManager(token_entry) ==
    [made |-> TRUE, token_id |-> token_entry.id, material |-> token_entry.secret]

\* AuthBridge.get_or_create_manager(token_entry)
get_or_create_manager(q) ==
    /\ brq[q].pc = "have_entry"
    /\ IF HasManager(managers, brq[q].entry)
       THEN /\ brq' = [brq EXCEPT ![q].pc = "idle", ![q].session = managers[brq[q].entry.id]]
            /\ UNCHANGED managers
       ELSE /\ managers' = [managers EXCEPT ![brq[q].entry.id] = KiroAuthManager(brq[q].entry)]
            /\ brq' = [brq EXCEPT ![q].pc = "idle", ![q].session = KiroAuthManager(brq[q].entry)]
    /\ UNCHANGED <<ledger_vars, cred_vars, req, sel_vars, mapping_vars, truncation_vars,
                   rewrite_vars, auth_vars, token_fp, token_secret, adm>>

\* ------------------------------------------------------------------------
\* API keys and the auth cache: validate_apikey, revoke_user_apikey, set_user_status
\* ------------------------------------------------------------------------
AuthTtl == 30
\* self._auth_cache = _Cache(ttl=30)

\* rows of user_apikeys before the calls
StoredKeys == DOMAIN ApiKeyOwner

\* keys of _auth_cache: f"apikey:{apikey}" for the keys requests present
AuthCacheKeys == ApiKeys \ {""}

\* coroutines inside the calls at the same time
AuthCallers == {"v1", "v2"}

\* validate_apikey returns None
NoUser == [id |-> None, apikeys |-> {}]

NoAuthEntry == [set |-> FALSE, user |-> NoUser, expire |-> 0]

NewVal == [pc |-> "idle", op |-> None, apikey |-> None, user_id |-> None, row |-> None,
           result |-> NoUser, served |-> None, ok |-> FALSE]

\* _Cache.get: the value of an entry that exists and has not expired
AuthCacheHit(key) == auth_cache[key].set /\ auth_cache[key].expire > now

\* SELECT u.* FROM users u JOIN user_apikeys k ON k.user_id = u.id
\* WHERE k.apikey = $1 AND u.status = 'active': the id of the row, None without one
JoinedUser(apikey) ==
    IF /\ apikey \in StoredKeys
       /\ user_apikeys[apikey] # None
       /\ user_status[user_apikeys[apikey]] = "active"
    THEN user_apikeys[apikey] ELSE None

\* SELECT apikey FROM user_apikeys WHERE user_id = $1
KeysOfUser(u) == {k \in StoredKeys : user_apikeys[k] = u}

\* validate_apikey up to its first await: a cache hit is returned, a miss issues the SELECT
validate_apikey_begin(c, apikey) ==
    /\ val[c].pc = "idle"
    /\ val' = [val EXCEPT ![c] =
                  IF AuthCacheHit(apikey)
                  THEN [NewVal EXCEPT !.pc = "hit", !.op = "validate_apikey", !.apikey = apikey,
                                      !.result = auth_cache[apikey].user, !.served = "cache"]
                  ELSE [NewVal EXCEPT !.pc = "query", !.op = "validate_apikey",
                                      !.apikey = apikey]]
    /\ UNCHANGED <<ledger_vars, cred_vars, req, sel_vars, mapping_vars, truncation_vars,
                   rewrite_vars, bridge_vars, user_apikeys, user_status, auth_cache>>

\* validate_apikey served from the cache: "return cached"
validate_apikey_return(c) ==
    /\ val[c].pc = "hit"
    /\ val' = [val EXCEPT ![c].pc = "idle"]
    /\ UNCHANGED <<ledger_vars, cred_vars, req, sel_vars, mapping_vars, truncation_vars,
                   rewrite_vars, bridge_vars, user_apikeys, user_status, auth_cache>>

\* validate_apikey: row = await conn.fetchrow(...); "if not row: return None"
validate_apikey_query(c) ==
    /\ val[c].pc = "query"
    /\ val' = [val EXCEPT ![c] =
                  IF JoinedUser(val[c].apikey) = None
                  THEN [@ EXCEPT !.pc = "idle", !.result = NoUser, !.served = "store"]
                  ELSE [@ EXCEPT !.pc = "keys", !.row = JoinedUser(val[c].apikey)]]
    /\ UNCHANGED <<ledger_vars, cred_vars, req, sel_vars, mapping_vars, truncation_vars,
                   rewrite_vars, bridge_vars, user_apikeys, user_status, auth_cache>>

\* validate_apikey: keys = await conn.fetch(...); result = self._row_to_user(row, apikeys=...)
validate_apikey_keys(c) ==
    /\ val[c].pc = "keys"
    /\ val' = [val EXCEPT ![c].pc = "fill",
                          ![c].result = [id |-> val[c].row, apikeys |-> KeysOfUser(val[c].row)]]
    /\ UNCHANGED <<ledger_vars, cred_vars, req, sel_vars, mapping_vars, truncation_vars,
                   rewrite_vars, bridge_vars, user_apikeys, user_status, auth_cache>>

\* validate_apikey after its awaits: self._auth_cache.set(f"apikey:{apikey}", result); return
validate_apikey_fill(c) ==
    /\ val[c].pc = "fill"
    /\ auth_cache' = [auth_cache EXCEPT ![val[c].apikey] =
                         [set |-> TRUE, user |-> val[c].result, expire |-> now + AuthTtl]]
    /\ val' = [val EXCEPT ![c].pc = "idle", ![c].served = "store"]
    /\ UNCHANGED <<ledger_vars, cred_vars, req, sel_vars, mapping_vars, truncation_vars,
                   rewrite_vars, bridge_vars, user_apikeys, user_status>>

\* revoke_user_apikey: DELETE FROM user_apikeys WHERE apikey = $1 AND user_id = $2;
\* res == "DELETE 1" is what the call will return
revoke_user_apikey(c, user_id, apikey) ==
    /\ val[c].pc = "idle"
    /\ LET matched == apikey \in StoredKeys /\ user_apikeys[apikey] = user_id
       IN /\ user_apikeys' = IF matched THEN [user_apikeys EXCEPT ![apikey] = None]
                             ELSE user_apikeys
          /\ val' = [val EXCEPT ![c] =
                        [NewVal EXCEPT !.pc = "clear", !.op = "revoke_user_apikey",
                                       !.apikey = apikey, !.user_id = user_id, !.ok = matched]]
    /\ UNCHANGED <<ledger_vars, cred_vars, req, sel_vars, mapping_vars, truncation_vars,
                   rewrite_vars, bridge_vars, user_status, auth_cache>>

\* set_user_status: UPDATE users SET status = $1 WHERE id = $2 (res == "UPDATE 1")
set_user_status(c, user_id, status) ==
    /\ val[c].pc = "idle"
    /\ user_status' = [user_status EXCEPT ![user_id] = status]
    /\ val' = [val EXCEPT ![c] =
                  [NewVal EXCEPT !.pc = "clear", !.op = "set_user_status",
                                 !.user_id = user_id, !.ok = TRUE]]
    /\ UNCHANGED <<ledger_vars, cred_vars, req, sel_vars, mapping_vars, truncation_vars,
                   rewrite_vars, bridge_vars, user_apikeys, auth_cache>>

\* revoke_user_apikey / set_user_status after the statement: self._auth_cache.clear(); return
auth_cache_clear(c) ==
    /\ val[c].pc = "clear"
    /\ auth_cache' = [k \in AuthCacheKeys |-> NoAuthEntry]
    /\ val' = [val EXCEPT ![c].pc = "idle"]
    /\ UNCHANGED <<ledger_vars, cred_vars, req, sel_vars, mapping_vars, truncation_vars,
                   rewrite_vars, bridge_vars, user_apikeys, user_status>>

\* ------------------------------------------------------------------------
\* The state outside the ledger and the requests, before any call
\* ------------------------------------------------------------------------
CallsInit ==
    /\ sel = [c \in SelCallers |-> NewSel]
    /\ rr_log = <<>>
    /\ model_mappings = SeededMappings
    /\ mapping_cache = [k \in CacheKeys |-> NoEntry]
    /\ now = 0
    /\ res = [c \in AliasCallers |-> NewRes]
    /\ tool_truncation_cache = [k \in ToolCallIds |-> NoInfo]
    /\ content_truncation_cache = [k \in MessageHashes |-> NoInfo]
    /\ cache_lock = None
    /\ wall_clock = 0
    /\ last_call = NoCall
    /\ thr = [t \in Threads |-> NewThread]
    /\ rw = NewRewrite
    /\ managers = [t \in TokenIds |-> NoSession]
    /\ adm = [a \in AdminCallers |-> NewAdm]
    /\ brq = [q \in BridgeReqs |-> NewBrq]
    /\ user_apikeys = [k \in StoredKeys |-> ApiKeyOwner[k]]
    /\ user_status = [u \in Tenants |-> "active"]
    /\ auth_cache = [k \in AuthCacheKeys |-> NoAuthEntry]
    /\ val = [c \in AuthCallers |-> NewVal]

\* the rows carry no client_id_hash and the same secret material
ExtInit ==
    /\ CallsInit
    /\ token_fp = [t \in TokenIds |-> ""]
    /\ token_secret = [t \in TokenIds |-> "s1"]

\* ------------------------------------------------------------------------
\* Specification of the request orchestration
\* ------------------------------------------------------------------------
InitBalance == 3
\* balance granted to tenant u1 before the requests start

NoQuota == [daily_tokens |-> 0, monthly_tokens |-> 0, daily_requests |-> 0]

\* quota settings of tenant u1 an admin may have stored before the requests start
QuotaSettings ==
    { NoQuota,
      [NoQuota EXCEPT !.daily_requests = 1],
      [NoQuota EXCEPT !.daily_tokens = 1] }

\* credential pools and sticky assignments of tenant u1 before the requests start:
\* two active credentials shared round-robin beside a suspended one; the same pool with
\* credential B assigned to the tenant; the assignment left behind after every
\* credential was removed
CredentialSettings ==
    { [status |-> [t \in TokenIds |-> IF t = "C" THEN "suspended" ELSE "active"],
       assigned |-> ""],
      [status |-> [t \in TokenIds |-> IF t = "C" THEN "suspended" ELSE "active"],
       assigned |-> "B"],
      [status |-> [t \in TokenIds |-> "absent"], assigned |-> "B"] }

\* request bodies: not JSON, JSON that fails validation, a valid chat-completion request
Bodies ==
    [kind : {"bad_json", "invalid"}, model : {None}, stream : {FALSE}]
        \cup [kind : {"ok"}, model : RequestModels, stream : BOOLEAN]

Init ==
    /\ token_balance = [u \in Tenants |-> IF u = "u1" THEN InitBalance ELSE 0]
    /\ token_granted = [u \in Tenants |-> IF u = "u1" THEN InitBalance ELSE 0]
    /\ quota \in {[u \in Tenants |-> IF u = "u1" THEN q ELSE NoQuota] : q \in QuotaSettings}
    /\ request_count = [u \in Tenants |-> 0]
    /\ usage_records = <<>>
    /\ today = 0
    /\ grant_op = NoGrant
    /\ \E cfg \in CredentialSettings :
          /\ token_status = cfg.status
          /\ assigned_token_id = [u \in Tenants |-> IF u = "u1" THEN cfg.assigned ELSE ""]
    /\ token_use_count = [t \in TokenIds |-> 0]
    /\ rr_index = 0
    /\ req = [r \in Reqs |-> NewReq]
    /\ ExtInit

Next ==
    \/ \E r \in Reqs, key \in ApiKeys : AuthenticateTenant(r, key)
    \/ \E r \in Reqs : AdmitByQuota(r)
    \/ \E r \in Reqs : SelectCredential(r)
    \/ \E r \in Reqs, body \in Bodies : ParseBody(r, body)
    \/ \E r \in Reqs : ResolveModel(r)
    \/ \E r \in Reqs, payload_ok \in BOOLEAN : RewriteAndBuild(r, payload_ok)
    \/ \E r \in Reqs, outcome \in {"raise", "error_status", "ok"} : DispatchUpstream(r, outcome)
    \/ \E r \in Reqs, ok \in BOOLEAN, usage \in UsageReports :
          CollectAndReturn(r, ok, usage.prompt_tokens, usage.completion_tokens)
    \/ \E r \in Reqs, has_usage \in BOOLEAN, usage \in UsageReports :
          StreamChunk(r, has_usage, usage.prompt_tokens, usage.completion_tokens)
    \/ \E r \in Reqs : StreamResume(r)
    \/ \E r \in Reqs : StreamEnd(r)
    \/ \E r \in Reqs : StreamDisconnect(r)
    \/ \E r \in Reqs : StreamRaise(r)
    \/ \E r \in Reqs, resumed \in BOOLEAN : StreamErrorExit(r, resumed)
    \/ \E r \in Reqs, outcome \in {"ok", "token_raises", "user_raises"} : MarkUsed(r, outcome)
    \/ \E r \in Reqs, outcome \in {"ok", "insert_raises", "update_raises"} : RecordUsage(r, outcome)

Spec == Init /\ [][Next]_vars

\* the same requests for a tenant with one token left and no caps
LastTokenInit ==
    /\ token_balance = [u \in Tenants |-> IF u = "u1" THEN 1 ELSE 0]
    /\ token_granted = [u \in Tenants |-> IF u = "u1" THEN InitBalance ELSE 0]
    /\ quota = [u \in Tenants |-> NoQuota]
    /\ request_count = [u \in Tenants |-> 0]
    /\ usage_records = <<>>
    /\ today = 0
    /\ grant_op = NoGrant
    /\ token_status = [t \in TokenIds |-> IF t = "C" THEN "suspended" ELSE "active"]
    /\ assigned_token_id = [u \in Tenants |-> ""]
    /\ token_use_count = [t \in TokenIds |-> 0]
    /\ rr_index = 0
    /\ req = [r \in Reqs |-> NewReq]
    /\ ExtInit

LastTokenSpec == LastTokenInit /\ [][Next]_vars

\* ------------------------------------------------------------------------
\* Specification of the balance under grants, usage writes and the other admin calls
\* ------------------------------------------------------------------------
\* amounts an admin grants (negative: reduce the balance); the route refuses 0
GrantAmounts == {0 - MaxAmount, MaxAmount}

\* record_usage as the ledger sees it: any caller, any counts
LedgerRecordUsage(u, m, p, c, t) ==
    /\ Len(usage_records) < Cardinality(UsageRowIds)
    /\ record_usage(u, m, p, c, t)
    /\ UNCHANGED <<token_granted, quota, request_count, today, grant_op, cred_vars, ext_vars, req>>

\* the first request of tenant u counts itself: mark_user_used
LedgerMarkUserUsed(u) ==
    /\ request_count[u] = 0
    /\ mark_user_used(u)
    /\ UNCHANGED <<token_balance, token_granted, quota, usage_records, today, grant_op,
                   cred_vars, ext_vars, req>>

LedgerInit ==
    /\ token_balance = [u \in Tenants |-> 0]
    /\ token_granted = [u \in Tenants |-> 0]
    /\ quota = [u \in Tenants |-> NoQuota]
    /\ request_count = [u \in Tenants |-> 0]
    /\ usage_records = <<>>
    /\ today = 0
    /\ grant_op = NoGrant
    /\ token_status = [t \in TokenIds |-> "active"]
    /\ token_use_count = [t \in TokenIds |-> 0]
    /\ rr_index = 0
    /\ assigned_token_id = [u \in Tenants |-> ""]
    /\ req = [r \in Reqs |-> NewReq]
    /\ ExtInit

LedgerNext ==
    \/ \E u \in Tenants, usage \in UsageReports :
          LedgerRecordUsage(u, "claude-sonnet-4", usage.prompt_tokens, usage.completion_tokens, "A")
    \/ \E u \in Tenants, amount \in GrantAmounts : grant_tokens_select(u, amount)
    \/ grant_tokens_update
    \/ \E u \in Tenants : reset_user_usage(u)
    \/ reset_user_usage_update
    \/ \E u \in Tenants : LedgerMarkUserUsed(u)
    \/ \E u \in Tenants : set_user_quota(u, [daily_requests |-> 1])

LedgerSpec == LedgerInit /\ [][LedgerNext]_vars

\* ------------------------------------------------------------------------
\* Specification of the admission check over quota settings, usage rows and days
\* ------------------------------------------------------------------------
QuotaCaps == {0, 1, MaxQuota}

QuotaInit ==
    /\ token_balance = [u \in Tenants |-> InitBalance]
    /\ token_granted = [u \in Tenants |-> InitBalance]
    /\ quota \in {[u \in Tenants |-> IF u = "u1" THEN q ELSE NoQuota] :
                    q \in [daily_tokens : QuotaCaps, monthly_tokens : QuotaCaps,
                           daily_requests : QuotaCaps]}
    /\ request_count = [u \in Tenants |-> 0]
    /\ usage_records = <<>>
    /\ today = 0
    /\ grant_op = NoGrant
    /\ token_status = [t \in TokenIds |-> "active"]
    /\ token_use_count = [t \in TokenIds |-> 0]
    /\ rr_index = 0
    /\ assigned_token_id = [u \in Tenants |-> ""]
    /\ req = [r \in Reqs |-> NewReq]
    /\ ExtInit

QuotaNext ==
    \/ \E u \in Tenants, usage \in UsageReports :
          LedgerRecordUsage(u, "claude-sonnet-4", usage.prompt_tokens, usage.completion_tokens, "A")
    \/ \E u \in Tenants : reset_user_usage(u)
    \/ reset_user_usage_update
    \/ AdvanceDay

QuotaSpec == QuotaInit /\ [][QuotaNext]_vars

\* ------------------------------------------------------------------------
\* Specification of credential selection under writes to the tokens table
\* ------------------------------------------------------------------------
\* tokens tables before the calls: A, B active and C suspended; A active, B suspended
\* and no third row yet
PoolSettings ==
    { [t \in TokenIds |-> IF t = "C" THEN "suspended" ELSE "active"],
      [t \in TokenIds |-> IF t = "A" THEN "active"
                          ELSE IF t = "B" THEN "suspended" ELSE "absent"] }

CredInit ==
    /\ token_balance = [u \in Tenants |-> 0]
    /\ token_granted = [u \in Tenants |-> 0]
    /\ quota = [u \in Tenants |-> NoQuota]
    /\ request_count = [u \in Tenants |-> 0]
    /\ usage_records = <<>>
    /\ today = 0
    /\ grant_op = NoGrant
    /\ token_status \in PoolSettings
    /\ token_use_count = [t \in TokenIds |-> 0]
    /\ rr_index = 0
    /\ assigned_token_id = [u \in Tenants |-> ""]
    /\ req = [r \in Reqs |-> NewReq]
    /\ ExtInit

CredNext ==
    \/ \E c \in SelCallers, assigned \in TokenIds \cup {""} : get_user_token_entry(c, assigned)
    \/ \E c \in SelCallers : get_token_full(c)
    \/ \E c \in SelCallers : get_next_token_fetch(c)
    \/ \E c \in SelCallers : get_next_token_pick(c)
    \/ \E t \in TokenIds : add_token_insert(t)
    \/ \E t \in TokenIds : add_token_update(t)
    \/ \E t \in TokenIds : remove_token(t)

CredSpec == CredInit /\ [][CredNext]_vars

\* ------------------------------------------------------------------------
\* Specification of the alias store: concurrent resolve_model, set_combo, remove_combo
\* ------------------------------------------------------------------------
AliasInit == LedgerInit

AliasNext ==
    \/ \E c \in AliasCallers, name \in AliasNames : resolve_model_begin(c, name)
    \/ \E c \in AliasCallers : resolve_model_return(c)
    \/ \E c \in AliasCallers : resolve_combo_query(c)
    \/ \E c \in AliasCallers : resolve_combo_fill(c)
    \/ \E c \in AliasCallers, name \in AliasNames, models \in TargetLists :
          set_combo(c, name, models)
    \/ \E c \in AliasCallers, name \in AliasNames : remove_combo(c, name)
    \/ \E c \in AliasCallers : mapping_cache_clear(c)
    \/ MappingTtlPasses

AliasSpec == AliasInit /\ [][AliasNext]_vars

\* ------------------------------------------------------------------------
\* Specification of the API keys: validations beside revocations and status changes
\* ------------------------------------------------------------------------
AuthInit == LedgerInit

AuthNext ==
    \/ \E c \in AuthCallers, apikey \in AuthCacheKeys : validate_apikey_begin(c, apikey)
    \/ \E c \in AuthCallers : validate_apikey_return(c)
    \/ \E c \in AuthCallers : validate_apikey_query(c)
    \/ \E c \in AuthCallers : validate_apikey_keys(c)
    \/ \E c \in AuthCallers : validate_apikey_fill(c)
    \/ \E c \in AuthCallers, user_id \in Tenants, apikey \in StoredKeys :
          revoke_user_apikey(c, user_id, apikey)
    \/ \E c \in AuthCallers, user_id \in Tenants, status \in {"active", "suspended"} :
          set_user_status(c, user_id, status)
    \/ \E c \in AuthCallers : auth_cache_clear(c)
    \/ MappingTtlPasses

AuthSpec == AuthInit /\ [][AuthNext]_vars

\* ------------------------------------------------------------------------
\* Specification of the truncation state under concurrent saves and takes
\* ------------------------------------------------------------------------
TruncationInit == LedgerInit

TruncationNext ==
    \/ \E t \in Threads, id \in ToolCallIds, tool_name \in ToolNames :
          Enter(t, "save_tool_truncation", id, <<>>, tool_name, "size_bytes")
    \/ \E t \in Threads, id \in ToolCallIds :
          Enter(t, "get_tool_truncation", id, <<>>, None, None)
    \/ \E t \in Threads, text \in Texts :
          Enter(t, "save_content_truncation", "", text, None, None)
    \/ \E t \in Threads, text \in Texts :
          Enter(t, "get_content_truncation", "", text, None, None)
    \/ \E t \in Threads : save_tool_truncation(t)
    \/ \E t \in Threads : get_tool_truncation(t)
    \/ \E t \in Threads : save_content_truncation(t)
    \/ \E t \in Threads : get_content_truncation(t)
    \/ ClockAdvances

TruncationSpec == TruncationInit /\ [][TruncationNext]_vars

\* ------------------------------------------------------------------------
\* Specification of the truncation rewrite: requests rewritten one after another,
\* entries saved between them and while a rewritten request waits for the upstream
\* (the loop has no await: nothing runs inside it)
\* ------------------------------------------------------------------------
RewriteInit == LedgerInit

RewriteNext ==
    \/ \E messages \in MessageLists : RewriteBegin(messages)
    \/ RewriteToolResult
    \/ RewriteAssistant
    \/ RewriteKeep
    \/ RewriteEnd
    \/ \E outcome \in SendOutcomes : BuildAndSend(outcome)
    \/ RewriteReturn
    \/ /\ rw.pc \in {"idle", "done"}
       /\ \/ \E id \in ToolCallIds, tool_name \in ToolNames :
                Enter("t1", "save_tool_truncation", id, <<>>, tool_name, "size_bytes")
          \/ \E text \in Texts :
                Enter("t1", "save_content_truncation", "", text, None, None)
          \/ save_tool_truncation("t1")
          \/ save_content_truncation("t1")

RewriteSpec == RewriteInit /\ [][RewriteNext]_vars

\* ------------------------------------------------------------------------
\* Specification of the credential records and the bridge: admin calls on the
\* tokens table beside a request that takes its session
\* ------------------------------------------------------------------------
\* tokens tables before the calls: empty, or one active row with a client_id_hash
RecordSettings ==
    { [status |-> [t \in TokenIds |-> "absent"], fp |-> [t \in TokenIds |-> ""]],
      [status |-> [t \in TokenIds |-> IF t = "A" THEN "active" ELSE "absent"],
       fp |-> [t \in TokenIds |-> IF t = "A" THEN "h1" ELSE ""]] }

BridgeInit ==
    /\ token_balance = [u \in Tenants |-> 0]
    /\ token_granted = [u \in Tenants |-> 0]
    /\ quota = [u \in Tenants |-> NoQuota]
    /\ request_count = [u \in Tenants |-> 0]
    /\ usage_records = <<>>
    /\ today = 0
    /\ grant_op = NoGrant
    /\ \E records \in RecordSettings :
          /\ token_status = records.status
          /\ token_fp = records.fp
    /\ token_secret = [t \in TokenIds |-> IF token_status[t] = "absent" THEN None ELSE "s1"]
    /\ token_use_count = [t \in TokenIds |-> 0]
    /\ rr_index = 0
    /\ assigned_token_id = [u \in Tenants |-> ""]
    /\ req = [r \in Reqs |-> NewReq]
    /\ CallsInit

BridgeNext ==
    \/ \E a \in AdminCallers, fp \in Fingerprints, secret \in Secrets :
          add_token_select(a, fp, secret)
    \/ \E a \in AdminCallers : add_token_update_existing(a)
    \/ \E a \in AdminCallers : add_token_insert_new(a)
    \/ \E t \in TokenIds, secret \in Secrets : update_token_credentials(t, secret)
    \/ \E a \in AdminCallers, t \in TokenIds : remove_token_route(a, t)
    \/ \E a \in AdminCallers : remove_manager(a)
    \/ \E q \in BridgeReqs, t \in TokenIds : token_entry_read(q, t)
    \/ \E q \in BridgeReqs : get_or_create_manager(q)

BridgeSpec == BridgeInit /\ [][BridgeNext]_vars

\* ------------------------------------------------------------------------
\* Properties
\* ------------------------------------------------------------------------
\* indices of the usage rows of tenant u written on the current day
RowsToday(u) ==
    {i \in DOMAIN usage_records :
        usage_records[i].user_id = u /\ usage_records[i].recorded_at = today}

\* indices of the usage rows of tenant u written in the current month
RowsThisMonth(u) ==
    {i \in DOMAIN usage_records :
        /\ usage_records[i].user_id = u
        /\ usage_records[i].recorded_at \div DaysPerMonth = today \div DaysPerMonth}

\* indices of all usage rows of tenant u
RowsOf(u) == {i \in DOMAIN usage_records : usage_records[i].user_id = u}

RECURSIVE TokensIn(_)
TokensIn(S) ==
    IF S = {} THEN 0
    ELSE LET i == CHOOSE j \in S : TRUE
         IN usage_records[i].prompt_tokens + usage_records[i].completion_tokens
               + TokensIn(S \ {i})

\* control positions of chat_completions before the upstream call
PreDispatchPcs == {"start", "quota", "select", "parse", "resolve", "rewrite"}

\* the failures raised before the upstream call
PreDispatchFailures == {"auth", "quota", "select", "parse", "validate", "build"}

\* request r takes the step
Steps(r) == req'[r] # req[r]

\* C1: a request that fails before the upstream call (missing or invalid key, quota
\* rejection, no credential, unparseable or invalid body, payload build failure) has
\* made no upstream call and no usage record, never opened a client, and none of its
\* steps before the dispatch touches the usage rows or any balance.
C1_NoEffectBeforeDispatch ==
    /\ [](\A r \in Reqs :
             req[r].failed_at \in PreDispatchFailures
                => /\ req[r].upstream_calls = 0
                   /\ req[r].record_calls = 0
                   /\ req[r].client = "none")
    /\ [][\A r \in Reqs :
             (req[r].pc \in PreDispatchPcs /\ Steps(r))
                => /\ usage_records' = usage_records
                   /\ token_balance' = token_balance
                   /\ req'[r].upstream_calls = 0
                   /\ req'[r].record_calls = 0]_vars

\* one request failed the key or body checks and the other failed to build its
\* payload, while the ledger is as it started
C1_Witness ==
    \E r1, r2 \in Reqs :
        /\ req[r1].pc = "done" /\ req[r1].failed_at = "build" /\ req[r1].status = 400
        /\ req[r2].pc = "done" /\ req[r2].failed_at \in {"auth", "parse", "validate"}
        /\ usage_records = <<>>
        /\ token_balance["u1"] = InitBalance

\* C2: record_usage is invoked at most once per request on every exit path, and every
\* change of a balance or of the usage rows is the single invocation of one request.
C2_RecordAtMostOnce ==
    /\ [](\A r \in Reqs : req[r].record_calls <= 1)
    /\ [][(token_balance' # token_balance \/ usage_records' # usage_records)
             => \E r \in Reqs :
                   /\ req[r].record_calls = 0
                   /\ req'[r].record_calls = 1
                   /\ \A r2 \in Reqs \ {r} : req'[r2] = req[r2]]_vars

\* a stream that ended by an upstream error re-raised after [DONE] recorded once
C2_Witness ==
    \E r \in Reqs :
        /\ req[r].pc = "done"
        /\ req[r].ending = "error_raised"
        /\ req[r].record_calls = 1
        /\ req[r].accounted = "insert_raises"

C4_ClientClosed ==
    \A r \in Reqs :
        /\ req[r].pc = "done" => req[r].client # "open"
        /\ (req[r].pc = "done" /\ req[r].upstream_calls > 0) => req[r].client = "closed"
        /\ req[r].client = "open" => req[r].pc \in {"collect", "stream", "yielded", "err_yield"}

\* one request failed while collecting the response and one stream was closed by the
\* consumer at the [DONE] chunk of an upstream error; both closed their client
C4_Witness ==
    \E r1, r2 \in Reqs :
        /\ req[r1].pc = "done" /\ req[r1].failed_at = "collect" /\ req[r1].client = "closed"
        /\ req[r2].pc = "done" /\ req[r2].ending = "error_closed" /\ req[r2].client = "closed"

\* C5: the balance of every tenant is at least zero in every state.
C5_BalanceNonNegative ==
    \A u \in Tenants : token_balance[u] >= 0

\* a tenant whose recorded usage exceeds everything ever granted sits at balance zero
C5_Witness ==
    \E u \in Tenants :
        /\ token_balance[u] = 0
        /\ token_granted[u] > 0
        /\ TokensIn(RowsOf(u)) > token_granted[u]

\* C6 as stated: a balance increases only in the step of a grant_tokens call for
\* that tenant with a positive amount.
C6_IncreaseOnlyByPositiveGrant ==
    [][\A u \in Tenants :
          token_balance'[u] > token_balance[u]
             => /\ grant_op.pc = "selected"
                /\ grant_op.user_id = u
                /\ grant_op.amount > 0]_vars

\* C7: check_quota answers the first failing check in the order balance, daily request
\* cap, daily token cap, monthly token cap; a cap of 0 never rejects, a cap rejects
\* exactly when the count or sum has reached it, and the answer is empty exactly when
\* no check fails.
C7_FirstFailingCheck ==
    \A u \in Tenants :
        LET exhausted == token_balance[u] <= 0
            requests  == /\ quota[u].daily_requests # 0
                         /\ Cardinality(RowsToday(u)) >= quota[u].daily_requests
            daily     == /\ quota[u].daily_tokens # 0
                         /\ TokensIn(RowsToday(u)) >= quota[u].daily_tokens
            monthly   == /\ quota[u].monthly_tokens # 0
                         /\ TokensIn(RowsThisMonth(u)) >= quota[u].monthly_tokens
        IN /\ check_quota(u) = "balance_exhausted" <=> exhausted
           /\ check_quota(u) = "daily_request_limit" <=> (~exhausted /\ requests)
           /\ check_quota(u) = "daily_token_limit" <=> (~exhausted /\ ~requests /\ daily)
           /\ check_quota(u) = "monthly_token_limit"
                 <=> (~exhausted /\ ~requests /\ ~daily /\ monthly)
           /\ check_quota(u) = None <=> ~(exhausted \/ requests \/ daily \/ monthly)

\* the daily request cap is reported although the daily and monthly token caps are
\* reached too, on a day after rows of an earlier day of the month were written
C7_Witness ==
    \E u \in Tenants :
        /\ check_quota(u) = "daily_request_limit"
        /\ quota[u].daily_tokens > 0 /\ TokensIn(RowsToday(u)) >= quota[u].daily_tokens
        /\ quota[u].monthly_tokens > 0
        /\ TokensIn(RowsThisMonth(u)) >= quota[u].monthly_tokens
        /\ RowsThisMonth(u) # RowsToday(u)

\* the request was let past the quota check, was sent upstream and has returned
Admitted(r) ==
    /\ req[r].pc = "done"
    /\ req[r].upstream_calls > 0

\* C8 as stated: with a daily request cap C > 0, a request is not admitted once C
\* requests of the same day were admitted before it.
C8_RejectsAfterAdmitted ==
    [][\A r \in Reqs :
          (req[r].pc = "quota" /\ req'[r].pc = "select"
              /\ quota[req[r].user].daily_requests > 0)
             => Cardinality({r2 \in Reqs \ {r} : Admitted(r2)})
                   < quota[req[r].user].daily_requests]_vars

\* C8: with a daily request cap C > 0 and a positive balance, once C usage rows of the
\* tenant carry the current day the quota check ends the request with 429 and the
\* daily-request reason, before any upstream call; below C rows the cap does not reject.
C8_RejectsAfterRecorded ==
    [][\A r \in Reqs :
          (req[r].pc = "quota" /\ Steps(r)
              /\ quota[req[r].user].daily_requests > 0
              /\ token_balance[req[r].user] > 0)
             => IF Cardinality(RowsToday(req[r].user)) >= quota[req[r].user].daily_requests
                THEN /\ req'[r].pc = "done"
                     /\ req'[r].status = 429
                     /\ req'[r].detail = "daily_request_limit"
                     /\ req'[r].upstream_calls = 0
                ELSE req'[r].detail # "daily_request_limit"]_vars

\* cap 1: one request was served and recorded, the next was rejected for the cap
C8_Witness ==
    \E r1, r2 \in Reqs :
        /\ quota["u1"].daily_requests = 1
        /\ req[r1].pc = "done" /\ req[r1].accounted = "ok"
        /\ Cardinality(RowsToday("u1")) = 1
        /\ req[r2].pc = "done" /\ req[r2].status = 429
        /\ req[r2].detail = "daily_request_limit"
        /\ req[r2].upstream_calls = 0

\* C9 as stated: with a daily token cap T > 0 and less than T recorded today, no
\* request's consumption takes the day's total above T.
C9_NeverAboveCap ==
    [][\A u \in Tenants :
          (quota[u].daily_tokens > 0 /\ TokensToday(u) < quota[u].daily_tokens)
             => TokensToday(u)' <= quota[u].daily_tokens]_vars

\* C9: with a daily token cap T > 0 (balance positive, daily request cap not reached)
\* the quota check ends the request with 429 and the daily-token reason, before any
\* upstream call, exactly when the tokens already recorded today have reached T; a
\* request that arrives below T is not rejected for the cap, whatever it will consume.
C9_RejectsOnceReached ==
    [][\A r \in Reqs :
          (req[r].pc = "quota" /\ Steps(r)
              /\ quota[req[r].user].daily_tokens > 0
              /\ token_balance[req[r].user] > 0
              /\ ~(/\ quota[req[r].user].daily_requests > 0
                   /\ Cardinality(RowsToday(req[r].user)) >= quota[req[r].user].daily_requests))
             => IF TokensIn(RowsToday(req[r].user)) >= quota[req[r].user].daily_tokens
                THEN /\ req'[r].pc = "done"
                     /\ req'[r].status = 429
                     /\ req'[r].detail = "daily_token_limit"
                     /\ req'[r].upstream_calls = 0
                ELSE req'[r].detail # "daily_token_limit"]_vars

\* cap 1: a request admitted at 0 recorded tokens consumed 2, the next was rejected
\* for the daily token cap without an upstream call
C9_Witness ==
    \E r1, r2 \in Reqs :
        /\ quota["u1"].daily_tokens = 1
        /\ req[r1].pc = "done" /\ req[r1].accounted = "ok"
        /\ TokensIn(RowsToday("u1")) > quota["u1"].daily_tokens
        /\ req[r2].pc = "done" /\ req[r2].status = 429
        /\ req[r2].detail = "daily_token_limit"
        /\ req[r2].upstream_calls = 0

\* the model name the upstream is asked for, given the name the client asked for
ResolvedName(name) == IF name = "kiro-sonnet-4" THEN "claude-sonnet-4" ELSE name

\* C10: a tenant with a positive balance and no caps is admitted; a completed request
\* that reports a non-zero usage p, c and whose accounting succeeds appends exactly one
\* usage row (prompt p, completion c, the resolved model, the credential used) and
\* leaves the balance at max(0, balance - (p + c)).
C10_OneRecordAndDeduction ==
    /\ [][\A r \in Reqs :
             (req[r].pc = "quota" /\ Steps(r)
                 /\ token_balance[req[r].user] > 0 /\ quota[req[r].user] = NoQuota)
                => req'[r].pc = "select"]_vars
    /\ [][\A r \in Reqs :
             (req[r].pc = "mark_token" /\ Steps(r) /\ req[r].p_tok + req[r].c_tok > 0
                 /\ request_count'[req[r].user] = request_count[req[r].user] + 1)
                => /\ req'[r].pc = "record"
                   /\ req'[r].record_calls = 0
                   /\ req'[r].p_tok = req[r].p_tok /\ req'[r].c_tok = req[r].c_tok
                   /\ req'[r].model = req[r].model /\ req'[r].token_id = req[r].token_id
                   /\ usage_records' = usage_records
                   /\ token_balance' = token_balance]_vars
    /\ [][\A r \in Reqs :
             (req[r].pc = "record" /\ Steps(r) /\ req'[r].accounted = "ok")
                => /\ usage_records' = Append(usage_records,
                         [user_id |-> req[r].user,
                          model |-> ResolvedName(req[r].requested),
                          prompt_tokens |-> req[r].p_tok,
                          completion_tokens |-> req[r].c_tok,
                          token_id |-> req[r].token_id,
                          recorded_at |-> today])
                   /\ req[r].token_id \in TokenIds
                   /\ req'[r].record_calls = 1
                   /\ req'[r].status = 200
                   /\ token_balance' = [token_balance EXCEPT ![req[r].user] =
                         IF @ >= req[r].p_tok + req[r].c_tok
                         THEN @ - (req[r].p_tok + req[r].c_tok) ELSE 0]]_vars
    /\ [](\A r \in Reqs :
             (req[r].pc = "done" /\ req[r].accounted = "ok"
                 /\ \A r2 \in Reqs \ {r} : req[r2].record_calls = 0)
                => /\ Len(usage_records) = 1
                   /\ token_balance["u1"] + TokensIn(RowsOf("u1")) >= InitBalance
                   /\ token_balance["u1"] > 0
                         => token_balance["u1"] + TokensIn(RowsOf("u1")) = InitBalance)

\* the only request so far asked for the combo name through the sticky credential B,
\* reported prompt 1 and completion 0, and is done with one row and the balance one lower
C10_Witness ==
    \E r1, r2 \in Reqs :
        /\ req[r1].pc = "done" /\ req[r1].accounted = "ok" /\ req[r1].status = 200
        /\ req[r2].pc = "start"
        /\ quota["u1"] = NoQuota
        /\ assigned_token_id["u1"] = "B"
        /\ usage_records = <<[user_id |-> "u1", model |-> "claude-sonnet-4",
                              prompt_tokens |-> 1, completion_tokens |-> 0,
                              token_id |-> "B", recorded_at |-> 0]>>
        /\ token_balance["u1"] = InitBalance - 1

\* ------------------------------------------------------------------------
\* Credential selection
\* ------------------------------------------------------------------------
ActiveIds == {t \in TokenIds : token_status[t] = "active"}

CreatedAt(t) == CHOOSE j \in DOMAIN TokenOrder : TokenOrder[j] = t

FirstCreated(ids) == CHOOSE t \in ids : \A u \in ids : CreatedAt(t) <= CreatedAt(u)

\* the active credential after t in creation order, cyclically
ActiveAfter(t) ==
    LET later == {u \in ActiveIds : CreatedAt(u) > CreatedAt(t)}
    IN IF later # {} THEN FirstCreated(later) ELSE FirstCreated(ActiveIds)

\* C11: credential selection returns the tenant's sticky credential exactly when the
\* tenant has one and its row exists and is active when it is looked up; in every
\* other case the selection continues into the round-robin get_next_token, and a
\* selection that went through the pool returns what the round-robin step yields,
\* possibly none.
C11_StickyIffActive ==
    [][\A c \in SelCallers :
          /\ (sel[c].pc = "idle" /\ sel'[c].pc # "idle") =>
                 IF sel'[c].assigned # "" THEN sel'[c].pc = "lookup" ELSE sel'[c].pc = "fetch"
          /\ (sel[c].pc = "lookup" /\ sel'[c] # sel[c]) =>
                 IF sel[c].assigned # "" /\ token_status[sel[c].assigned] = "active"
                 THEN /\ sel'[c].pc = "idle"
                      /\ sel'[c].result = sel[c].assigned
                      /\ sel'[c].via = "sticky"
                      /\ rr_index' = rr_index
                 ELSE sel'[c].pc = "fetch" /\ sel'[c].result = None
          /\ (sel[c].pc = "pick" /\ sel'[c].pc = "idle") =>
                 /\ sel'[c].via = "pool"
                 /\ sel'[c].result = IF sel[c].rows = <<>> THEN None
                                     ELSE sel[c].rows[(rr_index % Len(sel[c].rows)) + 1]
    ]_vars

\* one selection returned the sticky credential, another fell back to the pool
\* because its sticky credential was not active
C11_Witness ==
    \E c, d \in SelCallers :
        /\ sel[c].pc = "idle" /\ sel[c].via = "sticky" /\ sel[c].result = sel[c].assigned
        /\ sel[d].pc = "idle" /\ sel[d].via = "pool" /\ sel[d].assigned # ""
        /\ token_status[sel[d].assigned] # "active"
        /\ sel[d].result \notin {None, sel[d].assigned}

\* C12: get_next_token selects exactly the active credentials, in creation order;
\* it returns none exactly when that selection is empty and otherwise a selected
\* credential, leaving the cursor in [0, n) for the n selected; and consecutive
\* calls made while the active set stays the same return the active credentials
\* one after the other in creation order, cyclically, so that any n consecutive
\* results are the n active credentials, each once.
C12_RoundRobin ==
    /\ [](/\ \A i \in DOMAIN rr_log : rr_log[i] \in ActiveIds
          /\ \A i \in DOMAIN rr_log : i < Len(rr_log) => rr_log[i + 1] = ActiveAfter(rr_log[i])
          /\ \A i \in DOMAIN rr_log :
                 i + Cardinality(ActiveIds) - 1 <= Len(rr_log) =>
                     {rr_log[j] : j \in i .. (i + Cardinality(ActiveIds) - 1)} = ActiveIds)
    /\ [][\A c \in SelCallers :
             /\ (sel[c].pc = "fetch" /\ sel'[c].pc = "pick") =>
                    /\ {sel'[c].rows[i] : i \in DOMAIN sel'[c].rows} = ActiveIds
                    /\ Len(sel'[c].rows) = Cardinality(ActiveIds)
                    /\ \A i, j \in DOMAIN sel'[c].rows :
                           i < j => CreatedAt(sel'[c].rows[i]) < CreatedAt(sel'[c].rows[j])
             /\ (sel[c].pc = "pick" /\ sel'[c].pc = "idle") =>
                    /\ sel'[c].result = None <=> sel[c].rows = <<>>
                    /\ sel[c].rows # <<>> =>
                           /\ sel'[c].result \in {sel[c].rows[i] : i \in DOMAIN sel[c].rows}
                           /\ rr_index' \in 0 .. (Len(sel[c].rows) - 1)
                    /\ (sel[c].rows # <<>> /\ ~sel[c].stale) => sel'[c].result \in ActiveIds
                    /\ (sel[c].rows = <<>> /\ ~sel[c].stale) => ActiveIds = {}
      ]_vars

\* with A and B active and C suspended, four consecutive calls returned A, B, A, B
C12_Witness ==
    /\ rr_log = <<"A", "B", "A", "B">>
    /\ token_status["C"] = "suspended"
    /\ \E c \in SelCallers : sel[c].pc = "idle" /\ sel[c].via = "pool" /\ sel[c].result = "B"

\* ------------------------------------------------------------------------
\* Alias resolution
\* ------------------------------------------------------------------------
BuiltinNames == {n \in AliasNames : SeededMappings[n].present}

\* what the stored row of a name resolves to
StoredTarget(name) ==
    IF model_mappings[name].present /\ model_mappings[name].targets # <<>>
    THEN model_mappings[name].targets[1]
    ELSE name

\* the step in which resolve_model returns to its caller
Returns(c) == res[c].pc \in {"hit", "fill"} /\ res'[c].pc = "idle"

\* C13 as stated: a resolve_model call that overlaps with no alias write returns the
\* first target of the stored alias when the name is a stored alias with a non-empty
\* target list, and the name unchanged otherwise.
C13_ResolvesFirstStoredTarget ==
    [][\A c \in AliasCallers :
          (Returns(c) /\ res[c].quiet) => res'[c].result = StoredTarget(res[c].name)
    ]_vars

\* C14 as stated: two resolve_model calls for the same name made by one caller in
\* immediate succession, with no alias write from the start of the first to the end
\* of the second, return the same result.
C14_RepeatedResolveAgrees ==
    [][\A c \in AliasCallers :
          (Returns(c) /\ res[c].last_result # None) => res'[c].result = res[c].last_result
    ]_vars

\* C15: an alias whose stored target list is empty resolves to the name itself, both
\* when the row is read from the store and when the empty list is served from the
\* combo: cache entry; the empty list is never turned into a resolve: cache entry.
C15_EmptyAliasNotResolvable ==
    [][\A c \in AliasCallers :
          /\ (res[c].pc = "fill" /\ res'[c].pc = "idle"
                /\ res[c].row.present /\ res[c].row.targets = <<>>) =>
                 /\ res'[c].result = res[c].name
                 /\ mapping_cache'[<<"combo", res[c].name>>].set
                 /\ mapping_cache'[<<"combo", res[c].name>>].targets = <<>>
                 /\ mapping_cache'[<<"resolve", res[c].name>>]
                      = mapping_cache[<<"resolve", res[c].name>>]
          /\ (res[c].pc = "idle" /\ res'[c].pc = "hit" /\ res'[c].served = "combo_cache"
                /\ mapping_cache[<<"combo", res'[c].name>>].targets = <<>>) =>
                 /\ res'[c].result = res'[c].name
                 /\ mapping_cache' = mapping_cache
          /\ (res[c].pc = "hit" /\ res'[c].pc = "idle") => res'[c].result = res[c].result
    ]_vars

\* an alias stored with an empty list was resolved to its own name once from the
\* store and once from the cached empty list
C15_Witness ==
    \E c, d \in AliasCallers :
        /\ res[c].pc = "idle" /\ res[c].op = "resolve_model" /\ res[c].served = "store"
        /\ res[d].pc = "idle" /\ res[d].op = "resolve_model" /\ res[d].served = "combo_cache"
        /\ res[c].result = res[c].name /\ res[d].result = res[d].name
        /\ res[c].name = res[d].name
        /\ res[c].quiet /\ res[d].quiet
        /\ model_mappings[res[c].name].present
        /\ model_mappings[res[c].name].targets = <<>>

\* C16: a built-in alias stays present and flagged built-in; remove_combo on it
\* returns false and leaves the stored mappings unchanged; set_combo on it changes
\* its targets and nothing else.
C16_BuiltinsStay ==
    /\ [](\A n \in BuiltinNames : model_mappings[n].present /\ model_mappings[n].is_builtin)
    /\ [][\A c \in AliasCallers :
             (res[c].pc = "idle" /\ res'[c].pc = "clear" /\ res'[c].name \in BuiltinNames) =>
                 /\ res'[c].op = "remove_combo" =>
                        ~res'[c].ok /\ model_mappings' = model_mappings
                 /\ res'[c].op = "set_combo" =>
                        /\ \A n \in AliasNames :
                               n # res'[c].name => model_mappings'[n] = model_mappings[n]
                        /\ model_mappings'[res'[c].name] =
                               [model_mappings[res'[c].name] EXCEPT
                                   !.targets = model_mappings'[res'[c].name].targets]
      ]_vars

\* remove_combo on the built-in alias returned false after set_combo had changed its
\* targets; the alias is still there with the new targets, and a custom alias was
\* removed with true
C16_Witness ==
    \E c, d \in AliasCallers :
        /\ res[c].pc = "idle" /\ res[c].op = "remove_combo" /\ res[c].name \in BuiltinNames
        /\ ~res[c].ok
        /\ model_mappings[res[c].name].targets # SeededMappings[res[c].name].targets
        /\ res[d].pc = "idle" /\ res[d].op = "remove_combo" /\ res[d].name \notin BuiltinNames
        /\ res[d].ok

\* C17: the clear that ends every alias write empties the whole alias cache: right
\* after the write returns no key holds a value, for the written name or any other,
\* and a resolve_model call that starts on the emptied cache goes to the store.
C17_WriteEmptiesCache ==
    [][\A c \in AliasCallers :
          /\ (res[c].pc = "idle" /\ res'[c].pc # "idle"
                /\ res'[c].op \in {"set_combo", "remove_combo"}) => res'[c].pc = "clear"
          /\ (res[c].pc = "clear" /\ res'[c].pc = "idle") =>
                 \A k \in CacheKeys : ~mapping_cache'[k].set
          /\ (res[c].pc = "idle" /\ res'[c].pc # "idle" /\ res'[c].op = "resolve_model"
                /\ \A k \in CacheKeys : ~mapping_cache[k].set) => res'[c].pc = "query"
    ]_vars

\* a write returned after its clear had dropped entries cached for another name
C17_Witness ==
    \E c \in AliasCallers :
        /\ res[c].pc = "idle" /\ res[c].op \in {"set_combo", "remove_combo"}
        /\ res[c].cleared_other
        /\ \A k \in CacheKeys : ~mapping_cache[k].set

\* ------------------------------------------------------------------------
\* Truncation state
\* ------------------------------------------------------------------------
\* the step in which thread t runs the body of op and leaves the critical section
Runs(t, op) == thr[t].pc = "locked" /\ thr[t].op = op /\ thr'[t].pc = "idle"

\* C18: for every tool-call id, a save stores a new entry under the id, replacing the
\* one that was there, so the id never has more than the entry of its most recent
\* save; nothing but a save or a take of that id changes what is stored under it; a
\* take right after a save of the id returns that save's entry and removes it, and a
\* take right after a take of the same id returns none.
C18_ToolRoundTrip ==
    [][/\ \A t \in Threads :
             /\ Runs(t, "save_tool_truncation") =>
                    /\ tool_truncation_cache'[thr[t].id].present
                    /\ tool_truncation_cache'[thr[t].id].tool_call_id = thr[t].id
                    /\ tool_truncation_cache'[thr[t].id].tool_name = thr[t].tool_name
                    /\ tool_truncation_cache'[thr[t].id].timestamp = wall_clock
                    /\ \A k \in ToolCallIds :
                           tool_truncation_cache[k].present =>
                               tool_truncation_cache[k].timestamp < wall_clock
             /\ Runs(t, "get_tool_truncation") =>
                    /\ thr'[t].result = tool_truncation_cache[thr[t].id]
                    /\ ~tool_truncation_cache'[thr[t].id].present
                    /\ (last_call.op = "save_tool_truncation" /\ last_call.id = thr[t].id) =>
                           thr'[t].result = last_call.info /\ thr'[t].result.present
                    /\ (last_call.op = "get_tool_truncation" /\ last_call.id = thr[t].id) =>
                           ~thr'[t].result.present
       /\ \A k \in ToolCallIds :
             tool_truncation_cache'[k] # tool_truncation_cache[k] =>
                 \E t \in Threads :
                     /\ thr[t].id = k
                     /\ Runs(t, "save_tool_truncation") \/ Runs(t, "get_tool_truncation")
    ]_vars

\* after two saves a take returned the entry of the second save, and the take of the
\* same id that followed it returned none
C18_Witness ==
    \E t, u \in Threads :
        /\ t # u
        /\ wall_clock = 2
        /\ thr[t].pc = "idle" /\ thr[t].op = "get_tool_truncation"
        /\ thr[t].result.present /\ thr[t].result.timestamp = 1
        /\ thr[u].pc = "idle" /\ thr[u].op = "get_tool_truncation"
        /\ ~thr[u].result.present
        /\ last_call.op = "get_tool_truncation" /\ ~last_call.info.present
        /\ last_call.id = thr[t].result.tool_call_id
        /\ \A k \in ToolCallIds : ~tool_truncation_cache[k].present

\* C19 as stated: for all texts s and t, a take of s right after a save of s returns
\* the entry of that save, and a take of t right after a save of s, with t different
\* from s, returns none and leaves the entry of s in place.
C19_ContentRoundTrip ==
    [][\A t \in Threads :
          (Runs(t, "get_content_truncation") /\ last_call.op = "save_content_truncation") =>
              IF thr[t].text = last_call.text
              THEN thr'[t].result = last_call.info
              ELSE /\ ~thr'[t].result.present
                   /\ content_truncation_cache' = content_truncation_cache
    ]_vars

\* C20: the bodies of the truncation operations exclude each other; a take fetches
\* and deletes in the one step it spends inside the lock, returning the entry exactly
\* when one is stored under its key; so no entry is ever held by two takes, and an
\* entry a take holds is no longer stored.
C20_ConsumedOnce ==
    /\ [](/\ Cardinality({t \in Threads : thr[t].pc = "locked"}) <= 1
          /\ \A t \in Threads : thr[t].pc = "locked" <=> cache_lock = t
          /\ \A t, u \in Threads :
                 (t # u /\ thr[t].result.present) => thr[t].result # thr[u].result
          /\ \A t \in Threads :
                 thr[t].result.present =>
                     /\ \A k \in ToolCallIds : tool_truncation_cache[k] # thr[t].result
                     /\ \A k \in MessageHashes : content_truncation_cache[k] # thr[t].result)
    /\ [][\A t \in Threads :
             /\ Runs(t, "get_tool_truncation") =>
                    /\ thr'[t].result = tool_truncation_cache[thr[t].id]
                    /\ tool_truncation_cache' =
                           [tool_truncation_cache EXCEPT ![thr[t].id] = NoInfo]
                    /\ cache_lock = t /\ cache_lock' = None
             /\ Runs(t, "get_content_truncation") =>
                    /\ thr'[t].result = content_truncation_cache[MessageHash(thr[t].text)]
                    /\ content_truncation_cache' =
                           [content_truncation_cache EXCEPT ![MessageHash(thr[t].text)] = NoInfo]
                    /\ cache_lock = t /\ cache_lock' = None
      ]_vars

\* after one save of an id two threads took it: one holds the entry, the other none
C20_Witness ==
    \E t, u \in Threads :
        /\ wall_clock = 1
        /\ thr[t].pc = "idle" /\ thr[t].op = "get_tool_truncation" /\ thr[t].result.present
        /\ thr[u].pc = "idle" /\ thr[u].op = "get_tool_truncation" /\ ~thr[u].result.present
        /\ last_call.op = "get_tool_truncation"
        /\ last_call.id = thr[t].result.tool_call_id
        /\ ~last_call.info.present

\* ------------------------------------------------------------------------
\* Retention of truncation entries
\* ------------------------------------------------------------------------
\* thread t completes a save or a take on key k of the tool cache
OnToolKey(t, k) ==
    /\ Runs(t, "save_tool_truncation") \/ Runs(t, "get_tool_truncation")
    /\ thr[t].id = k

\* thread t completes a save or a take on key k of the content cache
OnContentKey(t, k) ==
    /\ Runs(t, "save_content_truncation") \/ Runs(t, "get_content_truncation")
    /\ MessageHash(thr[t].text) = k

\* C21: a stored truncation entry is removed only by a take of its own key and
\* changed only by a save or a take of its own key in its own cache: no step in which
\* only the clock moves, and no save or take on another key or on the other cache,
\* removes or changes it.
C21_KeptUntilTaken ==
    [][/\ \A k \in ToolCallIds :
             (tool_truncation_cache[k].present
                  /\ tool_truncation_cache'[k] # tool_truncation_cache[k])
                 => /\ \E t \in Threads : OnToolKey(t, k)
                    /\ ~tool_truncation_cache'[k].present
                           => \E t \in Threads :
                                 Runs(t, "get_tool_truncation") /\ thr[t].id = k
       /\ \A k \in MessageHashes :
             (content_truncation_cache[k].present
                  /\ content_truncation_cache'[k] # content_truncation_cache[k])
                 => /\ \E t \in Threads : OnContentKey(t, k)
                    /\ ~content_truncation_cache'[k].present
                           => \E t \in Threads :
                                 /\ Runs(t, "get_content_truncation")
                                 /\ MessageHash(thr[t].text) = k
      ]_vars

\* an entry saved at the first clock reading is still stored, unchanged, after the
\* clock moved on twice and a take on another key of its cache returned that key's entry
C21_Witness ==
    /\ tool_truncation_cache["call_1"].present
    /\ tool_truncation_cache["call_1"].timestamp = 0
    /\ wall_clock = 2
    /\ last_call.op = "get_tool_truncation"
    /\ last_call.id = "call_2"
    /\ last_call.info.present

\* ------------------------------------------------------------------------
\* The truncation rewrite
\* ------------------------------------------------------------------------
\* message i of the request is a tool result whose id had an entry when the loop
\* began, and no earlier message of the request took that entry
ToolPending(i) ==
    /\ IsToolResult(rw.messages[i])
    /\ rw.messages[i].tool_call_id \in rw.pending_tool
    /\ \A j \in 1 .. (i - 1) :
          IsToolResult(rw.messages[j])
              => rw.messages[j].tool_call_id # rw.messages[i].tool_call_id

\* message i of the request is an assistant text whose cache key had an entry when
\* the loop began, and no earlier message of the request took that entry
ContentPending(i) ==
    /\ IsAssistantText(rw.messages[i])
    /\ MessageHash(rw.messages[i].content) \in rw.pending_content
    /\ \A j \in 1 .. (i - 1) :
          IsAssistantText(rw.messages[j])
              => MessageHash(rw.messages[j].content) # MessageHash(rw.messages[i].content)

\* where message i of the request stands in the outbound list: one place further for
\* every notice added before it
OutIndex(i) == i + Cardinality({j \in 1 .. (i - 1) : ContentPending(j)})

\* C22: when the rewrite is done, the outbound list holds every message of the
\* request, in the request's order, and nothing else but one user notice immediately
\* after each assistant message that had a pending content entry; a tool result that
\* had a pending entry differs from the original in its content only; every other
\* message is the original.
C22_RewriteKeepsOrder ==
    rw.pc = "done" =>
        /\ Len(rw.out) = Len(rw.messages)
                            + Cardinality({j \in DOMAIN rw.messages : ContentPending(j)})
        /\ \A i \in DOMAIN rw.messages :
              LET msg == rw.messages[i]
                  sent == rw.out[OutIndex(i)]
              IN IF ToolPending(i)
                 THEN /\ sent = [msg EXCEPT !.content = sent.content]
                      /\ sent.content # msg.content
                 ELSE IF ContentPending(i)
                 THEN /\ sent = msg
                      /\ rw.out[OutIndex(i) + 1] = ChatMessage("user", "", UserNotice)
                 ELSE sent = msg

\* a request of three messages, a tool result and an assistant text with pending
\* entries before a user message, went out as four messages
C22_Witness ==
    /\ rw.pc = "done"
    /\ Len(rw.messages) = 3
    /\ ToolPending(1) /\ ContentPending(2)
    /\ rw.messages[3].role = "user"
    /\ Len(rw.out) = 4
    /\ rw.out[4] = rw.messages[3]

\* the loop is at a tool result whose id has an entry, and goes past it
PassesPendingToolResult ==
    /\ rw.pc = "loop" /\ rw.i <= Len(rw.messages)
    /\ IsToolResult(rw.messages[rw.i])
    /\ tool_truncation_cache[rw.messages[rw.i].tool_call_id].present
    /\ rw'.i = rw.i + 1

\* C23 as stated: the outbound content of a tool result with a pending entry carries
\* the entry's truncation diagnostic between the notice and the original content.
C23_CarriesDiagnostic ==
    [][PassesPendingToolResult =>
          LET msg == rw.messages[rw.i]
              info == tool_truncation_cache[msg.tool_call_id]
              sent == rw'.modified_messages[Len(rw'.modified_messages)]
          IN \E k \in DOMAIN sent.content : sent.content[k] = info.truncation_info
      ]_vars

\* C23, amended: the outbound content of a tool result with a pending entry is the
\* fixed notice, the "Original tool result:" separator and the original content
\* verbatim, nothing of the entry's diagnostic; the step removes the entry, so a tool
\* result with that id later in the request, or in a later request before the id is
\* saved again, goes out as it came in.
C23_NoticeThenOriginal ==
    /\ [][PassesPendingToolResult =>
             LET msg == rw.messages[rw.i]
                 sent == rw'.modified_messages[Len(rw'.modified_messages)]
             IN /\ sent = [msg EXCEPT !.content = ToolNotice \o OriginalMarker \o msg.content]
                /\ Len(rw'.modified_messages) = Len(rw.modified_messages) + 1
                /\ ~tool_truncation_cache'[msg.tool_call_id].present
        ]_vars
    /\ [](rw.pc = "done" =>
             \A i \in DOMAIN rw.messages :
                 (IsToolResult(rw.messages[i]) /\ ~ToolPending(i))
                     => rw.out[OutIndex(i)] = rw.messages[i])

\* a request with two tool results of one id that had an entry: the first went out
\* with the notice, the second as it came in
C23_Witness ==
    /\ rw.pc = "done"
    /\ Len(rw.messages) = 2
    /\ ToolPending(1)
    /\ IsToolResult(rw.messages[2])
    /\ rw.messages[2].tool_call_id = rw.messages[1].tool_call_id
    /\ rw.out[1].content = ToolNotice \o OriginalMarker \o rw.messages[1].content
    /\ rw.out[2] = rw.messages[2]
    /\ ~tool_truncation_cache[rw.messages[1].tool_call_id].present

\* ------------------------------------------------------------------------
\* Sessions of the bridge and credential records
\* ------------------------------------------------------------------------
\* request q's get_or_create_manager call returns
ManagerReturned(q) == brq[q].pc = "have_entry" /\ brq'[q].pc = "idle"

\* C24: the bridge holds one session per credential id, and a call for an id that
\* has a session returns that session and leaves the bridge as it is, whatever secret
\* material the record passed in carries; a call for an id without a session stores
\* the one it returns; only an eviction takes a session out.
C24_OneSessionPerId ==
    [][/\ \A q \in BridgeReqs :
             ManagerReturned(q) =>
                 /\ managers[brq[q].entry.id].made
                        => /\ brq'[q].session = managers[brq[q].entry.id]
                           /\ managers' = managers
                 /\ managers'[brq[q].entry.id] = brq'[q].session
                 /\ \A t \in TokenIds \ {brq[q].entry.id} : managers'[t] = managers[t]
       /\ \A t \in TokenIds :
             (managers[t].made /\ managers'[t] # managers[t])
                 => \E a \in AdminCallers :
                       adm[a].pc = "evict" /\ adm[a].tid = t /\ adm'[a].pc = "idle"
      ]_vars

\* a call was given a record whose secret material is not the material the session
\* it returned was built from: the session the bridge had for the id
C24_Witness ==
    \E q \in BridgeReqs :
        /\ brq[q].pc = "idle"
        /\ brq[q].session.made
        /\ brq[q].session.token_id = brq[q].entry.id
        /\ brq[q].session.material # brq[q].entry.secret
        /\ managers[brq[q].entry.id] = brq[q].session

\* C25 as stated: a request that holds the current record of a credential is given
\* a session built from that record's secret material, since every rotation of the
\* record evicted the session built before it.
C25_SessionOfCurrentRecord ==
    [][\A q \in BridgeReqs :
          (/\ ManagerReturned(q)
           /\ brq[q].entry.id \in TokenRows
           /\ brq[q].entry.secret = token_secret[brq[q].entry.id])
              => brq'[q].session.material = token_secret[brq[q].entry.id]
      ]_vars

\* C26 as stated: the tokens table never holds two records with the same non-empty
\* client_id_hash.
C26_OneRecordPerFingerprint ==
    \A t, u \in TokenRows :
        (token_fp[t] # "" /\ token_fp[t] = token_fp[u]) => t = u

\* ------------------------------------------------------------------------
\* Failures of the upstream call, of the handler and of the accounting
\* ------------------------------------------------------------------------
\* C27: a request whose upstream call answered with a status other than 200 ends
\* with that status; the handler made that one upstream call and no other, called
\* record_usage never and ran no use-counter update; the step that ends the request
\* leaves usage rows, balances, request counters and use counters as they are, and
\* the request takes no step after it.
C27_UpstreamErrorPassedOn ==
    /\ [](\A r \in Reqs :
             (req[r].pc = "done" /\ req[r].failed_at = "upstream") =>
                 /\ req[r].status = req[r].upstream_status
                 /\ req[r].status \in UpstreamErrorStatuses
                 /\ req[r].upstream_calls = 1
                 /\ req[r].record_calls = 0
                 /\ req[r].accounted = None)
    /\ [][\A r \in Reqs :
             /\ (req[r].pc = "dispatch" /\ req'[r].failed_at = "upstream")
                    => UNCHANGED <<usage_records, token_balance, request_count,
                                   token_use_count>>
             /\ (req[r].pc = "done" /\ req[r].failed_at = "upstream")
                    => req'[r] = req[r]
        ]_vars

\* the upstream answered 429 and the request ended with 429
C27_Witness ==
    \E r \in Reqs :
        /\ req[r].pc = "done" /\ req[r].failed_at = "upstream"
        /\ req[r].upstream_status = 429 /\ req[r].status = 429
        /\ req[r].client = "closed"

\* C28 as stated: a request that ended in an exception of the handler is answered
\* with a server error whose body is generic: it carries nothing of the exception.
C28_GenericErrorBody ==
    \A r \in Reqs :
        (req[r].pc = "done" /\ req[r].failed_at \in {"dispatch", "collect", "accounting"})
            => /\ req[r].status = 500
               /\ req[r].client = "closed"
               /\ req[r].detail = "Internal Server Error"

\* C29 as stated: a request whose upstream call succeeded and whose accounting then
\* failed is answered as if the accounting had succeeded.
C29_AccountingFailureUnseen ==
    \A r \in Reqs :
        (req[r].pc = "done"
            /\ req[r].accounted \in {"marks_failed", "insert_raises", "update_raises"})
            => req[r].status = 200

\* C30 as stated: the step in which grant_tokens(u, a) writes sets the balance of u
\* to max(0, balance + a), where balance is the balance before the step, adds a to
\* the lifetime granted total when a > 0 and leaves that total alone otherwise; it
\* touches no usage row, quota cap or request counter.
C30_GrantSetsBalance ==
    [][grant_op.pc = "selected" /\ grant_op'.pc = "idle" =>
          LET u == grant_op.user_id
              a == grant_op.amount
          IN /\ token_balance'[u] = Max(0, token_balance[u] + a)
             /\ token_granted'[u] = token_granted[u] + (IF a > 0 THEN a ELSE 0)
             /\ UNCHANGED <<usage_records, quota, request_count>>
      ]_vars

\* ------------------------------------------------------------------------
\* Reset of a tenant's usage
\* ------------------------------------------------------------------------
\* C31: the DELETE of reset_user_usage(u) removes every usage row of u and no row of
\* another tenant, so that the daily and monthly sums and the daily count of u that
\* admission reads are 0 after it; its UPDATE sets the request counter of u to 0 and
\* no other counter; neither statement changes a balance, a lifetime-granted total
\* or a quota cap.
C31_ResetClearsUsageOnly ==
    [][/\ \A u \in Tenants :
             (grant_op.pc = "idle" /\ grant_op'.pc = "deleted" /\ grant_op'.user_id = u) =>
                /\ \A i \in DOMAIN usage_records' : usage_records'[i].user_id # u
                /\ \A v \in Tenants \ {u} :
                      SelectSeq(usage_records', LAMBDA r : r.user_id = v)
                         = SelectSeq(usage_records, LAMBDA r : r.user_id = v)
                /\ TokensToday(u)' = 0 /\ TokensThisMonth(u)' = 0 /\ CountToday(u)' = 0
                /\ UNCHANGED <<token_balance, token_granted, quota, request_count>>
       /\ (grant_op.pc = "deleted" /\ grant_op'.pc = "idle") =>
             /\ request_count' = [request_count EXCEPT ![grant_op.user_id] = 0]
             /\ UNCHANGED <<token_balance, token_granted, quota, usage_records>>
      ]_vars

\* a reset of u1 has returned: u1 has no usage row and a request counter of 0 while
\* u2 keeps its row and its counter, and u1 keeps the balance a grant gave it
C31_Witness ==
    /\ grant_op.pc = "idle"
    /\ \A i \in DOMAIN usage_records : usage_records[i].user_id = "u2"
    /\ usage_records # <<>>
    /\ request_count["u1"] = 0 /\ request_count["u2"] > 0
    /\ token_balance["u1"] > 0 /\ token_granted["u1"] > 0

\* ------------------------------------------------------------------------
\* Admission and deduction
\* ------------------------------------------------------------------------
\* C32: the admission check reserves nothing: the step that admits a request reads
\* a positive balance and leaves the balance and the usage rows as they are, and the
\* balance of a tenant goes down only in the RecordUsage step of one of its requests,
\* after that request's upstream call; so a second request of the tenant that is
\* checked in between sees the same balance.
C32_AdmissionReservesNothing ==
    [][/\ \A r \in Reqs :
             /\ (req[r].pc = "quota" /\ req'[r].pc = "select")
                    => /\ token_balance[req[r].user] > 0
                       /\ UNCHANGED <<token_balance, usage_records>>
             /\ (req[r].pc = "quota" /\ req'[r].pc = "done")
                    => UNCHANGED <<token_balance, usage_records>>
       /\ \A u \in Tenants :
             token_balance'[u] < token_balance[u]
                => \E q \in Reqs :
                      /\ req[q].pc = "record" /\ req[q].user = u
                      /\ req[q].upstream_calls = 1
      ]_vars

\* two requests of the tenant whose balance is 1 were both admitted and both made
\* their upstream call, and the balance is still 1
C32_Witness ==
    \E r1, r2 \in Reqs :
        /\ r1 # r2
        /\ req[r1].user = "u1" /\ req[r2].user = "u1"
        /\ req[r1].upstream_calls = 1 /\ req[r2].upstream_calls = 1
        /\ req[r1].pc \in {"stream", "collect"} /\ req[r2].pc \in {"stream", "collect"}
        /\ token_balance["u1"] = 1
        /\ quota["u1"] = NoQuota

\* C34 as stated: once set_combo(name, targets) with a non-empty list has returned
\* and no later alias write has run, a resolve_model(name) that starts and is answered
\* from the cache returns targets[0], whatever resolve was in flight during the write.
C34_ResolveAfterWriteSeesIt ==
    [][\A c, d \in AliasCallers :
          ( /\ res[c].pc = "idle" /\ res[c].op = "set_combo" /\ res[c].quiet
            /\ res[d].pc = "idle" /\ res'[d].pc = "hit"
            /\ res'[d].name = res[c].name
            /\ model_mappings[res[c].name].targets # <<>> )
          => res'[d].result = model_mappings[res[c].name].targets[1]
    ]_vars

\* C35 as stated: once the record of a credential has been removed, the eviction of
\* its session has run, and no request still holds the record it selected before the
\* removal, the bridge holds no session for that credential.
C35_NoSessionAfterRemoval ==
    \A t \in TokenIds :
        ( /\ token_status[t] = "removed"
          /\ \A a \in AdminCallers : ~(adm[a].pc = "evict" /\ adm[a].tid = t)
          /\ \A q \in BridgeReqs : ~(brq[q].pc = "have_entry" /\ brq[q].entry.id = t) )
        => ~managers[t].made

\* the balances a grant of a and deductions can leave in some sequential order, when
\* the balance was b before all of them and the deductions alone took it to c: the
\* deductions before the grant take d1 together, those after it d2 (a deduction
\* beyond b + MaxAmount changes nothing: the balance is clamped at 0)
SerialBalances(b, c, a) ==
    { BalanceAfterUsage(BalanceAfterGrant(BalanceAfterUsage(b, d1), a), d2) :
        <<d1, d2>> \in { dd \in (0 .. (b + MaxAmount)) \X (0 .. (b + MaxAmount)) :
                           BalanceAfterUsage(b, dd[1] + dd[2]) = c } }

\* C36 as stated: the balance grant_tokens writes is the balance of some sequential
\* order of the grant and the record_usage calls that committed since the grant read
\* the balance; a deduction committed in between is not overwritten.
C36_NoDeductionLost ==
    [][grant_op.pc = "selected" /\ grant_op'.pc = "idle" =>
          token_balance'[grant_op.user_id]
              \in SerialBalances(grant_op.balance, token_balance[grant_op.user_id],
                                 grant_op.amount)
      ]_vars

\* C37 as stated: once every revoke_user_apikey and set_user_status call has returned,
\* a validate_apikey that starts for a key whose row is deleted, or whose tenant is not
\* active, fails, whatever validation was in flight during the mutation.
C37_RevokedKeyRejected ==
    [][\A c \in AuthCallers :
          ( /\ val[c].pc = "idle" /\ val'[c].pc = "hit"
            /\ \A d \in AuthCallers : val[d].pc # "clear"
            /\ JoinedUser(val'[c].apikey) = None )
          => val'[c].result = NoUser
    ]_vars

\* C38 as stated: a request that consumed a truncation entry during the rewrite does
\* not fail before or at dispatch (payload build failure, network error, non-success
\* upstream status): it sends the upstream call that carries the notice.
C38_ConsumedNoticeIsSent ==
    rw.pc = "failed" => rw.tool_results_modified = 0 /\ rw.content_notices_added = 0

\* the step in which get_next_token returns a credential picked from current rows
Picks(c) ==
    /\ sel[c].pc = "pick" /\ sel'[c].pc = "idle"
    /\ sel[c].rows # <<>> /\ ~sel[c].stale

\* C39 as stated: with an unchanged active set of two or more credentials, a
\* get_next_token call returns a credential that no call running beside it returned.
C39_OverlappingCallsDiffer ==
    [][\A c \in SelCallers :
          (Picks(c) /\ Len(sel[c].rows) >= 2) => sel'[c].result \notin sel[c].met
    ]_vars

\* C39, amended: get_next_token reads and advances the cursor in one step, so with
\* an unchanged active set of size n any k <= n calls whose cursor steps follow one
\* another return k pairwise distinct credentials (each at its own cursor value), and
\* a call returns a credential different from those of the calls that ran beside it
\* as long as these returned fewer than n credentials.
C39_CursorStepAtomic ==
    /\ [](\A i, j \in DOMAIN rr_log :
             (i < j /\ j - i < Cardinality(ActiveIds)) => rr_log[i] # rr_log[j])
    /\ [][\A c \in SelCallers :
             Picks(c) =>
                 /\ sel'[c].result = RowAt(sel[c].rows, rr_index)
                 /\ Len(sel[c].rows) >= 2
                        => /\ rr_index' # rr_index % Len(sel[c].rows)
                           /\ RowAt(sel[c].rows, rr_index') # sel'[c].result
                 /\ Cardinality(sel[c].met) < Len(sel[c].rows)
                        => sel'[c].result \notin sel[c].met
       ]_vars

\* two calls were inside get_next_token at the same time, with A and B active, and
\* returned different credentials
C39_Witness ==
    \E c, d \in SelCallers :
        /\ c # d
        /\ sel[c].pc = "idle" /\ sel[c].via = "pool" /\ sel[c].result \in ActiveIds
        /\ sel[d].pc = "idle" /\ sel[d].via = "pool" /\ sel[d].result \in ActiveIds
        /\ sel[d].met = {sel[c].result}
        /\ sel[d].result # sel[c].result
        /\ Cardinality(ActiveIds) = 2

\* ------------------------------------------------------------------------
\* Order of the steps of a request
\* ------------------------------------------------------------------------
\* the place of each control position in the pipeline AuthenticateTenant, AdmitByQuota,
\* SelectCredential, (body parsing), ResolveModel, RewriteForTruncation, DispatchUpstream,
\* StreamOut or CollectAndReturn, (use counters), RecordUsage
Stage ==
    [start |-> 1, quota |-> 2, select |-> 3, parse |-> 4, resolve |-> 5, rewrite |-> 6,
     dispatch |-> 7, stream |-> 8, yielded |-> 8, err_yield |-> 8, collect |-> 8,
     mark_token |-> 9, record |-> 10, done |-> 11]

\* C33 as stated: RecordUsage starts only when every earlier step of the request has
\* succeeded, StreamOut included.
C33_RecordOnlyAfterSuccess ==
    \A r \in Reqs : req[r].pc = "record" => req[r].ending = "completed"

\* C33, amended: a step of a request takes it to the next stage of the pipeline, keeps
\* it inside StreamOut, or ends it; a request whose step failed ends there, except
\* that a stream that ended in a client disconnection or a streaming error still goes
\* on to the use counters and RecordUsage; RecordUsage starts only in a request whose
\* one upstream call returned 200.
C33_StepsInOrder ==
    /\ [][\A r \in Reqs :
             Steps(r) =>
                 /\ req[r].pc # "done"
                 /\ \/ req'[r].pc = "done"
                    \/ Stage[req'[r].pc] = Stage[req[r].pc] + 1
                    \/ Stage[req'[r].pc] = Stage.stream /\ Stage[req[r].pc] = Stage.stream
                 /\ req'[r].failed_at # None => req'[r].pc = "done"
        ]_vars
    /\ [](\A r \in Reqs :
             req[r].pc \in {"mark_token", "record"} =>
                 /\ req[r].upstream_calls = 1
                 /\ req[r].upstream_status = 0
                 /\ req[r].failed_at = None
                 /\ \/ req[r].ending = "completed"
                    \/ req[r].stream /\ req[r].ending \in {"disconnected", "error_raised",
                                                            "error_closed"})

\* a streamed request whose client disconnected is about to record its usage
C33_Witness ==
    \E r \in Reqs :
        /\ req[r].pc = "record"
        /\ req[r].stream /\ req[r].ending = "disconnected"
        /\ req[r].upstream_calls = 1

====
